---- MODULE Spec2Model ----
(***************************************************************************)
(* Batched relationship loading of strawberry-sqlalchemy-mapper:           *)
(* StrawberrySQLAlchemyLoader / PaginatedLoader (loader.py), the position  *)
(* cursor codec (pagination_cursor_utils.py) and the DataLoader they       *)
(* drive.                                                                  *)
(*                                                                         *)
(* Python values are represented as follows.                               *)
(*   Optional[x]  : <<>> is None, <<v>> is the value v                     *)
(*   str          : a sequence of one-character strings                    *)
(*   bytes        : a sequence of integers 0..255                          *)
(*   Key (tuple)  : a sequence of column values, here <<k>>                *)
(*   row          : a record [id, parent_id]                               *)
(***************************************************************************)
EXTENDS Integers, Sequences, FiniteSets, TLC

(***************************************************************************)
(* Bounds of the model.                                                    *)
(***************************************************************************)
\* Largest number of related rows of one key.
MaxRows == 10
\* Largest first / last argument.
MaxCount == 4
\* Largest number of rows of the second key of a table.
MaxOther == 2
\* Largest number of load() calls of one run of the loader.
MaxLoads == 3
\* The largest row index a cursor is made of in the cursor round trips.
MaxIndex == 120
\* The ids of a node-list request: at most MaxIds.
MaxIds == 3
\* The calls of the connection extension nested in one task: at most MaxDepth.
MaxDepth == 2
\* The sessions made for connection fields in one operation: at most MaxSessions.
MaxSessions == 4
\* The calls of generated relationship resolvers: at most MaxCalls.
MaxCalls == 3
\* The calls of mapper.finalize(): at most MaxFinalize.
MaxFinalize == 2

None == <<>>
Some(v) == <<v>>

(***************************************************************************)
(* Text: str(int), ASCII, base64 (strawberry.relay.to_base64 /             *)
(* from_base64 over Python's base64 module).                               *)
(***************************************************************************)
B64Chars ==
  << "A","B","C","D","E","F","G","H","I","J","K","L","M",
     "N","O","P","Q","R","S","T","U","V","W","X","Y","Z",
     "a","b","c","d","e","f","g","h","i","j","k","l","m",
     "n","o","p","q","r","s","t","u","v","w","x","y","z",
     "0","1","2","3","4","5","6","7","8","9","+","/" >>

\* The 6-bit value of each base64 character.
B64Table == [c \in {B64Chars[i] : i \in 1..64} |-> (CHOOSE i \in 1..64 : B64Chars[i] = c) - 1]

\* The 6-bit value of a base64 character, -1 for a character outside the alphabet.
B64Value(c) == IF c \in DOMAIN B64Table THEN B64Table[c] ELSE -1

\* ASCII code of the characters a cursor's text is made of.
Ord(c) ==
  LET v == B64Value(c) IN
  CASE c = ":" -> 58
    [] c = "-" -> 45
    [] c = " " -> 32
    [] c = "_" -> 95
    [] v >= 0 /\ v <= 25 -> 65 + v
    [] v >= 26 /\ v <= 51 -> 97 + (v - 26)
    [] v >= 52 /\ v <= 61 -> 48 + (v - 52)
    [] c = "+" -> 43
    [] c = "/" -> 47
    [] OTHER -> 63

RECURSIVE Encode(_)
\* str.encode(): the bytes of a text.
Encode(s) == IF s = <<>> THEN <<>> ELSE <<Ord(Head(s))>> \o Encode(Tail(s))

Digits == <<"0","1","2","3","4","5","6","7","8","9">>

RECURSIVE StrNat(_)
StrNat(n) == IF n < 10 THEN <<Digits[n + 1]>> ELSE StrNat(n \div 10) \o <<Digits[(n % 10) + 1]>>

\* str(i) of an integer.
Str(i) == IF i < 0 THEN <<"-">> \o StrNat(0 - i) ELSE StrNat(i)

RECURSIVE b64encode(_)
\* base64.b64encode: three bytes give four characters, the tail is padded with "=".
b64encode(bytes) ==
  IF bytes = <<>> THEN <<>>
  ELSE LET n  == Len(bytes)
           b1 == bytes[1]
           b2 == IF n >= 2 THEN bytes[2] ELSE 0
           b3 == IF n >= 3 THEN bytes[3] ELSE 0
           w  == b1 * 65536 + b2 * 256 + b3
           c1 == B64Chars[((w \div 262144) % 64) + 1]
           c2 == B64Chars[((w \div 4096) % 64) + 1]
           c3 == B64Chars[((w \div 64) % 64) + 1]
           c4 == B64Chars[(w % 64) + 1]
       IN  CASE n = 1 -> <<c1, c2, "=", "=">>
             [] n = 2 -> <<c1, c2, c3, "=">>
             [] OTHER -> <<c1, c2, c3, c4>> \o b64encode(SubSeq(bytes, 4, n))

RECURSIVE a2b_base64(_, _, _, _, _)
\* binascii.a2b_base64 (not strict), one character at a time: characters outside
\* the alphabet are skipped, a complete pad sequence ends the input, and input
\* that ends inside a quad is an error ("Incorrect padding").
\* Result: [ok |-> BOOLEAN, bytes |-> the decoded bytes].
a2b_base64(s, quad_pos, pads, leftchar, out) ==
  IF s = <<>>
  THEN [ok |-> quad_pos = 0, bytes |-> out]
  ELSE LET c == Head(s)
           v == B64Value(c)
       IN  IF c = "="
           THEN IF quad_pos >= 2 /\ quad_pos + pads + 1 >= 4
                THEN [ok |-> TRUE, bytes |-> out]
                ELSE a2b_base64(Tail(s), quad_pos, IF quad_pos >= 2 THEN pads + 1 ELSE pads,
                                leftchar, out)
           ELSE IF v < 0
           THEN a2b_base64(Tail(s), quad_pos, pads, leftchar, out)
           ELSE CASE quad_pos = 0 -> a2b_base64(Tail(s), 1, 0, v, out)
                  [] quad_pos = 1 ->
                       a2b_base64(Tail(s), 2, 0, (v % 16),
                                  Append(out, leftchar * 4 + (v \div 16)))
                  [] quad_pos = 2 ->
                       a2b_base64(Tail(s), 3, 0, (v % 4),
                                  Append(out, leftchar * 16 + (v \div 4)))
                  [] OTHER ->
                       a2b_base64(Tail(s), 0, 0, 0, Append(out, leftchar * 64 + v))

b64decode(s) == a2b_base64(s, 0, 0, 0, <<>>)

\* strawberry.relay.to_base64(type_, node_id): base64 of "<type_>:<node_id>".
to_base64(type_name, node_id) == b64encode(Encode(type_name \o <<":">> \o node_id))

\* Position of the first b in bytes, 0 when there is none.
Find(bytes, b) ==
  IF \E i \in 1..Len(bytes) : bytes[i] = b
  THEN CHOOSE i \in 1..Len(bytes) : bytes[i] = b /\ \A j \in 1..(i - 1) : bytes[j] # b
  ELSE 0

\* strawberry.relay.from_base64(value): the text before and after the first ":".
\* Every failure (bad base64, bytes that are no text, no ":") is a ValueError.
\* Result: [ok |-> FALSE] or [ok |-> TRUE, start |-> bytes, rest |-> bytes].
Split(bytes, p) ==
  IF p = 0
  THEN [ok |-> FALSE, start |-> <<>>, rest |-> <<>>]
  ELSE [ok |-> TRUE, start |-> SubSeq(bytes, 1, p - 1),
        rest |-> SubSeq(bytes, p + 1, Len(bytes))]

Decoded(d) ==
  IF ~d.ok \/ \E i \in 1..Len(d.bytes) : d.bytes[i] > 127
  THEN [ok |-> FALSE, start |-> <<>>, rest |-> <<>>]
  ELSE Split(d.bytes, Find(d.bytes, 58))

from_base64(value) == Decoded(b64decode(value))

RECURSIVE NatOf(_, _)
\* The value of decimal digits; the underscores between them are skipped.
NatOf(bytes, acc) ==
  IF bytes = <<>> THEN acc
  ELSE IF Head(bytes) = 95 THEN NatOf(Tail(bytes), acc)
  ELSE NatOf(Tail(bytes), acc * 10 + (Head(bytes) - 48))

\* Decimal digits, single underscores allowed between them.
IsDigits(bytes) ==
  /\ bytes # <<>>
  /\ \A i \in 1..Len(bytes) : (bytes[i] >= 48 /\ bytes[i] <= 57) \/ bytes[i] = 95
  /\ bytes[1] # 95 /\ bytes[Len(bytes)] # 95
  /\ \A i \in 1..(Len(bytes) - 1) : ~(bytes[i] = 95 /\ bytes[i + 1] = 95)

IsSpace(b) == b = 32 \/ (b >= 9 /\ b <= 13)

\* str.strip() of an ASCII text.
StripSpace(bytes) ==
  IF \A i \in 1..Len(bytes) : IsSpace(bytes[i]) THEN <<>>
  ELSE SubSeq(bytes,
              CHOOSE i \in 1..Len(bytes) :
                ~IsSpace(bytes[i]) /\ \A j \in 1..(i - 1) : IsSpace(bytes[j]),
              CHOOSE i \in 1..Len(bytes) :
                ~IsSpace(bytes[i]) /\ \A j \in (i + 1)..Len(bytes) : IsSpace(bytes[j]))

\* An optional sign and digits.
ParseSigned(bytes) ==
  CASE IsDigits(bytes) -> Some(NatOf(bytes, 0))
    [] bytes # <<>> /\ Head(bytes) = 45 /\ IsDigits(Tail(bytes)) -> Some(0 - NatOf(Tail(bytes), 0))
    [] bytes # <<>> /\ Head(bytes) = 43 /\ IsDigits(Tail(bytes)) -> Some(NatOf(Tail(bytes), 0))
    [] OTHER -> None

\* int(text) of an ASCII text: surrounding whitespace is stripped, then an
\* optional sign and decimal digits; anything else is a ValueError.
\* Result: None for the ValueError, Some(i) otherwise.
ParseInt(bytes) == ParseSigned(StripSpace(bytes))

ArrayConnection == <<"a","r","r","a","y","c","o","n","n","e","c","t","i","o","n">>

(***************************************************************************)
(* pagination_cursor_utils.py                                              *)
(***************************************************************************)
\* Mutant of decode_cursor_index: the prefix of the cursor is not compared.
IndexOfAnyPrefix(r) == IF r.ok THEN ParseInt(r.rest) ELSE None

decode_cursor_index_any_prefix(cursor) == IndexOfAnyPrefix(from_base64(cursor))

\* The exceptions the except clause of decode_cursor_index catches.
CaughtIndexError == {"IndexError"}

Caught == {"ValueError", "IndexError"}

\* The exception the try block of decode_cursor_index raises on the result r
\* of from_base64, "" when it raises none: the ValueError of from_base64 or
\* that of int().
TryRaises(r) ==
  IF ~r.ok THEN "ValueError"
  ELSE IF r.start = Encode(ArrayConnection) /\ ParseInt(r.rest) = None THEN "ValueError"
  ELSE ""

\* Whether a call decode_cursor_index(cursor) ends with an exception: the one
\* of its try block, unless it is caught.
decode_cursor_index_raises(cursor) ==
  TryRaises(from_base64(cursor)) \notin (Caught \cup {""})

\* The body of decode_cursor_index on the result r of from_base64.
IndexOfArrayConnection(r) ==
  IF r.ok /\ r.start = Encode(ArrayConnection)
  THEN ParseInt(r.rest)
  ELSE None

\* decode_cursor_index(cursor): Some(index), or None when the cursor does not
\* decode (the ValueError of from_base64 and of int() is swallowed).
decode_cursor_index(cursor) == IndexOfArrayConnection(from_base64(cursor))

\* Mutant of encode_cursor_index: only the last digit of the index is encoded.
encode_cursor_index_last_digit(cursor_index) == to_base64(ArrayConnection, Str(cursor_index % 10))

\* encode_cursor_index(cursor_index)
encode_cursor_index(cursor_index) == to_base64(ArrayConnection, Str(cursor_index))

(***************************************************************************)
(* The relationships and the backend.                                      *)
(*                                                                         *)
(* A relationship carries what the code reads of a RelationshipProperty:   *)
(* key (its name), uselist, local and remote (the keys of the local and    *)
(* of the remote columns of local_remote_pairs, pair by pair) and entity   *)
(* (the attributes of the related model, whose instances the query         *)
(* selects).                                                               *)
(* Department.employees is to-many over employee.parent_id;                *)
(* Employee.department is to-one over department.id;                       *)
(* Department.employees through the table employee_department_join_table   *)
(* (SecondaryEmployees) has two pairs, (department.id, department_id) and  *)
(* (employee.id, employee_id), whose remote columns are the join table's.  *)
(***************************************************************************)
Employees ==
  [key |-> "employees", uselist |-> TRUE, local |-> <<"id">>,
   remote |-> <<"parent_id">>, entity |-> {"id", "parent_id"}]
Department ==
  [key |-> "department", uselist |-> FALSE, local |-> <<"parent_id">>,
   remote |-> <<"id">>, entity |-> {"id", "parent_id"}]
SecondaryEmployees ==
  [key |-> "secondary_employees", uselist |-> TRUE, local |-> <<"id", "id">>,
   remote |-> <<"department_id", "employee_id">>, entity |-> {"id"}]
Relationships == {Employees, Department}
RelationshipKeys == {r.key : r \in Relationships}
MappedRelationships == Relationships \cup {SecondaryEmployees}
RelationshipOf(name) == CHOOSE r \in MappedRelationships : r.key = name

Max(a, b) == IF a >= b THEN a ELSE b
Min(a, b) == IF a <= b THEN a ELSE b

\* getattr(row, remote.key) for the pairs of the relationship: the row's key.
group_by_remote_key(relationship, row) ==
  [i \in 1..Len(relationship.remote) |-> row[relationship.remote[i]]]

\* Whether getattr(row, remote.key) finds every remote column on an instance
\* of the related model; if not, it raises AttributeError.
HasRemoteAttributes(relationship) ==
  \A i \in 1..Len(relationship.remote) : relationship.remote[i] \in relationship.entity

\* The instances of the related model a query selects from its result rows.
Entities(relationship, rows) ==
  [i \in 1..Len(rows) |-> [c \in relationship.entity |-> rows[i][c]]]

RECURSIVE Filter(_, _, _)
\* WHERE (remote columns) IN keys, the backend's row order kept.
Filter(relationship, rows, keys) ==
  IF rows = <<>> THEN <<>>
  ELSE (IF \E i \in 1..Len(keys) : keys[i] = group_by_remote_key(relationship, Head(rows))
        THEN <<Head(rows)>> ELSE <<>>)
       \o Filter(relationship, Tail(rows), keys)

\* The query of load_fn as the backend runs it: the filter, then OFFSET and
\* LIMIT; an offset or a limit of 0 is not applied to the query.
Select(relationship, rows, keys, offset, limit) ==
  LET matched == Filter(relationship, rows, keys)
      n       == Len(matched)
      from    == IF offset > 0 THEN offset + 1 ELSE 1
      to      == IF limit > 0 THEN Min(n, (from - 1) + limit) ELSE n
  IN  IF from > to THEN <<>> ELSE Entities(relationship, SubSeq(matched, from, to))

\* _scalar_one over the sync bind: the scalar of the query, or the exception
\* the backend raises. Result: [raised, value].
scalar_one(value, fails) == [raised |-> fails, value |-> IF fails THEN 0 ELSE value]

\* Mutant of scalars_all: the backend's exception is swallowed and no row returned.
scalars_all_swallowing(rows, fails) == [raised |-> FALSE, rows |-> IF fails THEN <<>> ELSE rows]

\* _scalars_all over the sync bind: the rows of the query, or the exception the
\* backend raises. Result: [raised, rows].
scalars_all(rows, fails) == [raised |-> fails, rows |-> IF fails THEN <<>> ELSE rows]

\* _get_relationship_record_count_for_keys: SELECT count(*) over the same filter.
\* Result: [raised, value].
get_relationship_record_count_for_keys(relationship, rows, keys, fails) ==
  scalar_one(Len(Filter(relationship, rows, keys)), fails)

\* Mutant of get_relationship_record_count_for_key: the count is not filtered by key.
record_count_unfiltered(relationship, rows, key) == Len(rows)

\* get_relationship_record_count_for_key
get_relationship_record_count_for_key(relationship, rows, key) ==
  get_relationship_record_count_for_keys(relationship, rows, <<key>>, FALSE).value

\* Python's truth value of an Optional[str]: None and "" are false.
Truthy(cursor) == cursor # None /\ cursor[1] # <<>>

\* Mutant of AfterOffset: the row of the cursor itself is returned again.
AfterOffsetInclusive(decoded_after) == decoded_after

\* offset = decoded_after + 1
AfterOffset(decoded_after) == decoded_after + 1

\* offset = max(0, items - last), items the rows before the cursor or all rows
LastOffset(items, last) == Max(0, items - last)

\* Mutant of LastLimit: the limit is not capped by the rows before the cursor.
LastLimitUncapped(last, items) == last

\* limit = min(last, items)
LastLimit(last, items) == Min(last, items)

\* The branches of _get_pagination_offset_limit on the decoded cursors and on
\* total, the result of the count query (made only when last is given).
offset_limit(first, last, decoded_after, before_index, total) ==
  LET offset0 == IF decoded_after # None /\ decoded_after[1] >= 0
                 THEN AfterOffset(decoded_after[1]) ELSE 0
  IN  IF last # None
      THEN IF total.raised
           THEN [raised |-> TRUE, offset |-> 0, limit |-> 0, nCount |-> 1]
           ELSE IF before_index # None
           THEN LET items_before_cursor == Min(before_index[1], total.value)
                IN  [raised |-> FALSE,
                     offset |-> LastOffset(items_before_cursor, last[1]),
                     limit  |-> LastLimit(last[1], items_before_cursor),
                     nCount |-> 1]
           ELSE [raised |-> FALSE,
                 offset |-> LastOffset(total.value, last[1]),
                 limit  |-> LastLimit(last[1], total.value),
                 nCount |-> 1]
      ELSE IF before_index # None
      THEN [raised |-> FALSE, offset |-> offset0,
            limit |-> IF before_index[1] > 0 THEN before_index[1] ELSE 0,
            nCount |-> 0]
      ELSE [raised |-> FALSE, offset |-> offset0,
            limit |-> IF first # None /\ first[1] >= 0 THEN first[1] ELSE 0,
            nCount |-> 0]

\* _get_pagination_offset_limit. countFails says whether the count query raises.
\* Result: [raised, offset, limit, nCount], nCount the count queries executed.
get_pagination_offset_limit(relationship, rows, keys, first, after, last, before, countFails) ==
  offset_limit(first, last,
               IF Truthy(after) THEN decode_cursor_index(after[1]) ELSE None,
               IF Truthy(before) THEN decode_cursor_index(before[1]) ELSE None,
               get_relationship_record_count_for_keys(relationship, rows, keys, countFails))

\* defaultdict(list) lookup: a missing key is the empty list.
Lookup(grouped_keys, key) ==
  IF key \in DOMAIN grouped_keys THEN grouped_keys[key] ELSE <<>>

RECURSIVE GroupRowsPrepending(_, _, _)
\* Mutant of GroupRows: a row is put at the head of its key's list.
GroupRowsPrepending(relationship, rows, grouped_keys) ==
  IF rows = <<>> THEN grouped_keys
  ELSE LET k == group_by_remote_key(relationship, Head(rows))
           g == [x \in (DOMAIN grouped_keys) \cup {k} |->
                   IF x = k THEN <<Head(rows)>> \o Lookup(grouped_keys, k)
                   ELSE grouped_keys[x]]
       IN  GroupRowsPrepending(relationship, Tail(rows), g)

RECURSIVE GroupRows(_, _, _)
\* for row in rows: grouped_keys[group_by_remote_key(row)].append(row)
GroupRows(relationship, rows, grouped_keys) ==
  IF rows = <<>> THEN grouped_keys
  ELSE LET k == group_by_remote_key(relationship, Head(rows))
           g == [x \in (DOMAIN grouped_keys) \cup {k} |->
                   IF x = k THEN Append(Lookup(grouped_keys, k), Head(rows))
                   ELSE grouped_keys[x]]
       IN  GroupRows(relationship, Tail(rows), g)

\* Mutant of ResultList: the entries follow the sorted keys, not the requested order.
ResultListSorted(relationship, grouped_keys, keys) ==
  LET sorted == [i \in 1..Len(keys) |->
                   CHOOSE k \in {keys[j] : j \in 1..Len(keys)} :
                     Cardinality({j \in 1..Len(keys) : keys[j][1] < k[1]}) = i - 1]
  IN  [i \in 1..Len(keys) |->
         IF relationship.uselist
         THEN Lookup(grouped_keys, sorted[i])
         ELSE IF Lookup(grouped_keys, sorted[i]) # <<>>
              THEN Some(Lookup(grouped_keys, sorted[i])[1])
              ELSE None]

\* The return of load_fn: one entry per key, in the order of keys. A to-many
\* entry is the list of the key's rows; a to-one entry is Some(first row) or None.
ResultList(relationship, grouped_keys, keys) ==
  [i \in 1..Len(keys) |->
     IF relationship.uselist
     THEN Lookup(grouped_keys, keys[i])
     ELSE IF Lookup(grouped_keys, keys[i]) # <<>>
          THEN Some(Lookup(grouped_keys, keys[i])[1])
          ELSE None]

\* Mutant of InvalidCombination: last with after is let through.
InvalidCombinationLax(first, after, last, before) ==
  \/ first # None /\ last # None
  \/ first # None /\ before # None

\* The validation at the head of load_fn.
InvalidCombination(first, after, last, before) ==
  \/ first # None /\ last # None
  \/ first # None /\ before # None
  \/ last # None /\ after # None

\* Mutant of RowFetches: one row fetch per key of the batch.
RowFetchesPerKey(keys) == Len(keys)

\* The number of row fetches (_scalars_all) load_fn issues once it reaches it.
RowFetches(keys) == 1

Raised(error, nCount, nFetch) ==
  [status |-> error, values |-> <<>>, rows |-> <<>>, nCount |-> nCount,
   nFetch |-> nFetch, offset |-> 0, limit |-> 0]

\* The tail of load_fn from the row fetch on: fetched is the result of
\* _scalars_all, ol the offset and limit applied to the query.
load_fn_group(relationship, keys, ol, fetched) ==
  IF fetched.raised
  THEN Raised("BackendError", ol.nCount, RowFetches(keys))
  ELSE IF fetched.rows # <<>> /\ ~HasRemoteAttributes(relationship)
  THEN Raised("AttributeError", ol.nCount, RowFetches(keys))
  ELSE [status |-> "ok",
        values |-> ResultList(relationship,
                              GroupRows(relationship, fetched.rows, <<>>), keys),
        rows   |-> fetched.rows,
        nCount |-> ol.nCount, nFetch |-> RowFetches(keys),
        offset |-> ol.offset, limit |-> ol.limit]

\* load_fn from the computed offset and limit on: the offset and the limit are
\* applied to the query over all keys, and its rows are fetched.
load_fn_fetch(relationship, rows, keys, fail, ol) ==
  IF ol.raised
  THEN Raised("BackendError", ol.nCount, 0)
  ELSE load_fn_group(relationship, keys, ol,
                     scalars_all(Select(relationship, rows, keys, ol.offset, ol.limit),
                                 fail = "fetch"))

\* StrawberrySQLAlchemyLoader.loader_for.load_fn over the backend's rows.
\* fail is the backend's behaviour: "none", "count" (the count query raises) or
\* "fetch" (the row fetch raises).
\* Result: [status, values, rows, nCount, nFetch, offset, limit]; status is "ok",
\* "ValueError" or "BackendError"; rows are the rows the fetch returned; nCount
\* and nFetch are the queries executed.
load_fn(relationship, rows, keys, first, after, last, before, fail) ==
  IF InvalidCombination(first, after, last, before)
  THEN Raised("ValueError", 0, 0)
  ELSE load_fn_fetch(relationship, rows, keys, fail,
                     get_pagination_offset_limit(relationship, rows, keys, first,
                                                 after, last, before, fail = "count"))

(***************************************************************************)
(* Inputs: tables, keys, cursors, pagination arguments.                    *)
(***************************************************************************)
\* The keys of the parents: 1 and 2 have rows, 3 never has any.
Keys == {<<1>>, <<2>>, <<3>>}

\* Row i (from 0) of parent k in the relationship's order.
EmployeeRow(k, i) == [id |-> 100 * k + i, parent_id |-> k]
DepartmentRow(k) == [id |-> k, parent_id |-> 0]

RECURSIVE Interleave(_, _)
Interleave(a, b) ==
  IF a = <<>> THEN b
  ELSE IF b = <<>> THEN a
  ELSE <<Head(a), Head(b)>> \o Interleave(Tail(a), Tail(b))

\* The rows of employee as the backend returns them: n1 rows of parent 1 and n2
\* rows of parent 2, each parent's rows in the relationship's order, the two
\* parents' rows one after the other or interleaved.
EmployeeTable(n1, n2, layout) ==
  LET a == [i \in 1..n1 |-> EmployeeRow(1, i - 1)]
      b == [i \in 1..n2 |-> EmployeeRow(2, i - 1)]
  IN  CASE layout = "asc" -> a \o b
        [] layout = "desc" -> b \o a
        [] OTHER -> Interleave(a, b)

EmployeeTables ==
  {EmployeeTable(n1, n2, layout) :
     n1 \in 0..MaxRows, n2 \in 0..MaxOther, layout \in {"asc", "desc", "mixed"}}

DepartmentTables ==
  {<<>>, <<DepartmentRow(1)>>, <<DepartmentRow(2)>>,
   <<DepartmentRow(1), DepartmentRow(2)>>, <<DepartmentRow(2), DepartmentRow(1)>>}

TablesOf(r) == IF r = "employees" THEN EmployeeTables ELSE DepartmentTables

\* The key lists of a batch: one key, or two distinct keys.
KeyLists ==
  {<<k>> : k \in Keys} \cup {<< <<1>>, <<2>> >>, << <<2>>, <<1>> >>, << <<3>>, <<1>> >>}

\* Position cursors of the indices 0 .. MaxRows + 1.
CursorIndices == 0..(MaxRows + 1)
CursorOf == [i \in CursorIndices |-> encode_cursor_index(i)]
PositionCursors == {CursorOf[i] : i \in CursorIndices}

\* Cursors that do not decode to a position: the empty string, characters that
\* are no base64 quad, a cursor without its padding, the global id of a node
\* ("Fruit:1"), and an index that is no integer ("arrayconnection:x").
EmptyCursor == <<>>
JunkCursor == <<"Y", "X", "J">>
UnpaddedCursor == SubSeq(encode_cursor_index(0), 1, 23)
NodeIdCursor == to_base64(<<"F", "r", "u", "i", "t">>, Str(1))
NonIntegerCursor == to_base64(ArrayConnection, <<"x">>)
MalformedCursors ==
  {EmptyCursor, JunkCursor, UnpaddedCursor, NodeIdCursor, NonIntegerCursor}

Cursors == PositionCursors \cup MalformedCursors
OptCursors == {None} \cup {Some(c) : c \in Cursors}
OptCounts == {None} \cup {Some(n) : n \in 0..MaxCount}

PaginationArgs(first, after, last, before) ==
  [first |-> first, after |-> after, last |-> last, before |-> before]

\* The pagination arguments of the requests: forward (first / after), backward
\* (last / before), after with before, and the combinations load_fn rejects.
ForwardArgs == {PaginationArgs(f, a, None, None) : f \in OptCounts, a \in OptCursors}
BackwardArgs == {PaginationArgs(None, None, l, b) : l \in OptCounts, b \in OptCursors}
BetweenArgs ==
  {PaginationArgs(None, Some(CursorOf[a]), None, Some(CursorOf[b])) :
     a \in 0..1, b \in 0..3}
RejectedArgs ==
  {PaginationArgs(Some(f), None, Some(l), None) : f \in {0, 2}, l \in {0, 3}}
    \cup {PaginationArgs(Some(f), None, None, Some(b)) :
            f \in {0, 2}, b \in {CursorOf[3], JunkCursor}}
    \cup {PaginationArgs(None, Some(a), Some(l), None) :
            l \in {0, 2}, a \in {CursorOf[0], JunkCursor}}
AllArgs == ForwardArgs \cup BackwardArgs \cup BetweenArgs \cup RejectedArgs

(***************************************************************************)
(* State.                                                                  *)
(*   db          the rows of each relationship's related model, in the     *)
(*               order the backend returns them                            *)
(*   request     one call of load_fn: relationship, keys, arguments        *)
(*   response    None, or Some(result of load_fn) once it has run          *)
(*   connection  None, or Some(page) once the connection resolver has      *)
(*               wrapped the response of a to-many relationship            *)
(*   loaders, nLoads, lastFlush, cancelled   the loaders of one operation, *)
(*               see below                                                 *)
(*   inflight, sessions   the batches whose load_fn is suspended at a      *)
(*               backend call of an async bind, and the sessions the       *)
(*               async bind factory has made (both empty with a sync bind) *)
(*   connection_session, resolving   the context variable of field.py and  *)
(*               the calls of the connection extension that are running    *)
(*   registry, mapper, finalize   the models, the type mapper and its      *)
(*               finalize() call, see SpecFinalize (empty elsewhere)       *)
(***************************************************************************)
VARIABLES db, request, response, connection, loaders, nLoads, lastFlush, cancelled,
          inflight, sessions, connection_session, resolving,
          registry, mapper, finalize

pageVars == <<request, response, connection>>
asyncVars == <<inflight, sessions>>
resolverVars == <<connection_session, resolving>>
mapperVars == <<registry, mapper, finalize>>
loaderVars == <<loaders, nLoads, lastFlush, cancelled, asyncVars, resolverVars>>

NoRequest == [relationship |-> "employees", keys |-> <<>>, args |-> PaginationArgs(None, None, None, None)]

\* PageInfo of a relationship connection (spec 4.2, step 6).
PageInfo(offset, limit, total) ==
  [hasPreviousPage |-> offset > 0, hasNextPage |-> offset + limit < total]

\* One call of the batch load function of request.relationship.
Evaluate ==
  /\ request.keys # <<>>
  /\ response = None
  /\ response' = Some(load_fn(RelationshipOf(request.relationship),
                              db[request.relationship], request.keys,
                              request.args.first, request.args.after,
                              request.args.last, request.args.before, "none"))
  /\ UNCHANGED <<db, mapperVars, request, connection, loaderVars>>

\* The connection resolver of a to-many relationship field: the rows delivered
\* for the parent's key as edges, with the PageInfo of the request.
ResolveConnection ==
  /\ response # None
  /\ connection = None
  /\ response[1].status = "ok"
  /\ RelationshipOf(request.relationship).uselist
  /\ Len(request.keys) = 1
  /\ connection' =
       Some([edges |-> response[1].values[1],
             page_info |->
               PageInfo(response[1].offset, response[1].limit,
                        get_relationship_record_count_for_key(
                          RelationshipOf(request.relationship),
                          db[request.relationship], request.keys[1]))])
  /\ UNCHANGED <<db, mapperVars, request, response, loaderVars>>

(***************************************************************************)
(* The loaders of one operation (sync bind: load_fn runs without           *)
(* suspending).                                                            *)
(*   loaders    StrawberrySQLAlchemyLoader._loaders: relationship key ->   *)
(*              PaginatedLoader._loaders: pagination_key -> DataLoader     *)
(*   nLoads     the load() calls made so far                               *)
(*   lastFlush  None, or Some(record of the batch flushed last)            *)
(*   cancelled  whether the operation (its resolver tasks) was cancelled   *)
(* A DataLoader is [first, after, last, before (the arguments its load_fn  *)
(* closes over), cache_map (key -> future), batch (the keys of its open    *)
(* batch, <<>> when none is open), joined (the load() calls that joined    *)
(* the open batch), hits (the load() calls answered with a future settled  *)
(* earlier), nBatches, nRuns, nCount, nFetch (batches flushed,      *)
(* load_fn calls, count queries and row fetches so far)].                  *)
(* A future is [state ("pending", "resolved", "rejected", "cancelled"),    *)
(* value, error,                                                           *)
(* asked (the arguments of the load() that created it), keys and fail      *)
(* (the key list and the backend behaviour of the batch that settled it)]. *)
(***************************************************************************)
\* Mutant of pagination_key: last is left out of the key.
pagination_key_without_last(first, after, last, before) ==
  (IF first # None THEN << <<"first", first[1]>> >> ELSE <<>>)
    \o (IF after # None THEN << <<"after", after[1]>> >> ELSE <<>>)
    \o (IF before # None THEN << <<"before", before[1]>> >> ELSE <<>>)

\* PaginatedLoader.loader_for: the tuple of the (name, value) items that are not None.
pagination_key(first, after, last, before) ==
  (IF first # None THEN << <<"first", first[1]>> >> ELSE <<>>)
    \o (IF after # None THEN << <<"after", after[1]>> >> ELSE <<>>)
    \o (IF last # None THEN << <<"last", last[1]>> >> ELSE <<>>)
    \o (IF before # None THEN << <<"before", before[1]>> >> ELSE <<>>)

\* DataLoader(load_fn=load_fn), load_fn closing over the arguments of loader_for.
NewDataLoader(first, after, last, before) ==
  [first |-> first, after |-> after, last |-> last, before |-> before,
   cache_map |-> <<>>, batch |-> <<>>, joined |-> 0, hits |-> 0,
   nBatches |-> 0, nRuns |-> 0, nCount |-> 0, nFetch |-> 0]

PendingFuture(args) ==
  [state |-> "pending", value |-> <<>>, error |-> "", asked |-> args,
   keys |-> <<>>, fail |-> "none"]

\* Mutant of DataLoaderLoad: the cache is not consulted, every call gets a new
\* pending future in the open batch.
DataLoaderLoadUncached(dl, key, args) ==
  [dl EXCEPT
     !.cache_map = [k \in (DOMAIN dl.cache_map) \cup {key} |->
                      IF k = key THEN PendingFuture(args) ELSE dl.cache_map[k]],
     !.batch = IF \E i \in 1..Len(dl.batch) : dl.batch[i] = key THEN @ ELSE Append(@, key),
     !.joined = @ + 1]

\* Mutant of DataLoaderLoad: a call for a key of the open batch adds the key to
\* the batch once more.
DataLoaderLoadDuplicating(dl, key, args) ==
  IF key \in DOMAIN dl.cache_map
  THEN IF \E i \in 1..Len(dl.batch) : dl.batch[i] = key
       THEN [dl EXCEPT !.joined = @ + 1, !.batch = Append(@, key)]
       ELSE [dl EXCEPT !.hits = @ + 1]
  ELSE [dl EXCEPT
          !.cache_map = [k \in (DOMAIN dl.cache_map) \cup {key} |->
                           IF k = key THEN PendingFuture(args) ELSE dl.cache_map[k]],
          !.batch = Append(@, key),
          !.joined = @ + 1]

\* DataLoader.load(key): a key that has a future in cache_map gets that future
\* (a call for a key of the open batch joins the batch); any other key gets a
\* new pending future, cached and added to the open batch (opened, and its
\* dispatch scheduled, when there is none).
DataLoaderLoad(dl, key, args) ==
  IF key \in DOMAIN dl.cache_map
  THEN IF \E i \in 1..Len(dl.batch) : dl.batch[i] = key
       THEN [dl EXCEPT !.joined = @ + 1]
       ELSE [dl EXCEPT !.hits = @ + 1]
  ELSE [dl EXCEPT
          !.cache_map = [k \in (DOMAIN dl.cache_map) \cup {key} |->
                           IF k = key THEN PendingFuture(args) ELSE dl.cache_map[k]],
          !.batch = Append(@, key),
          !.joined = @ + 1]

\* The backend failure a call of load_fn met: none when the failing query was
\* never executed.
Met(res, fail) ==
  IF (fail = "count" /\ res.nCount > 0) \/ (fail = "fetch" /\ res.nFetch > 0)
  THEN fail ELSE "none"

\* Mutant of DispatchBatch: the batch is closed and its futures are left pending.
DispatchBatchDropping(dl, res, fail) ==
  [dl EXCEPT !.batch = <<>>, !.joined = 0, !.nBatches = @ + 1, !.nRuns = @ + 1,
             !.nCount = @ + res.nCount, !.nFetch = @ + res.nFetch]

\* DataLoader.dispatch_batch once load_fn has answered: a result list of the
\* batch's length resolves each task with its entry; an exception of load_fn
\* (or a list of another length) rejects every task of the batch. A future
\* that was cancelled is done and keeps its outcome.
DispatchBatch(dl, res, fail) ==
  LET keys == dl.batch
      ok   == res.status = "ok" /\ Len(res.values) = Len(keys)
      idx(k) == CHOOSE i \in 1..Len(keys) : keys[i] = k
  IN  [dl EXCEPT
         !.cache_map = [k \in DOMAIN dl.cache_map |->
            IF (\E i \in 1..Len(keys) : keys[i] = k) /\ dl.cache_map[k].state = "pending"
            THEN [state |-> IF ok THEN "resolved" ELSE "rejected",
                  value |-> IF ok THEN res.values[idx(k)] ELSE <<>>,
                  error |-> IF ok THEN ""
                            ELSE IF res.status = "ok" THEN "WrongNumberOfResultsReturned"
                            ELSE res.status,
                  asked |-> dl.cache_map[k].asked,
                  keys |-> keys,
                  fail |-> Met(res, fail)]
            ELSE dl.cache_map[k]],
         !.batch = <<>>,
         !.joined = 0,
         !.nBatches = @ + 1,
         !.nRuns = @ + 1,
         !.nCount = @ + res.nCount,
         !.nFetch = @ + res.nFetch]

\* The arguments and keys the resolvers of the operation load with.
NoArgs == PaginationArgs(None, None, None, None)
FirstArgs == PaginationArgs(Some(1), None, None, None)
LastArgs == PaginationArgs(None, None, Some(1), None)
FirstLastArgs == PaginationArgs(Some(1), None, Some(1), None)
FirstBeforeArgs == PaginationArgs(Some(1), None, None, Some(CursorOf[1]))
LastAfterArgs == PaginationArgs(None, Some(CursorOf[0]), Some(1), None)
LoadArgs(r) ==
  IF r = "employees"
  THEN {NoArgs, FirstArgs, LastArgs, FirstLastArgs}
  ELSE {NoArgs, FirstBeforeArgs, LastAfterArgs}
LoadKeys == {<<1>>, <<2>>}

Extend(f, x, v) == [y \in (DOMAIN f) \cup {x} |-> IF y = x THEN v ELSE f[y]]

\* A resolver's loader.loader_for(relationship).load(key, first, after, last, before):
\* StrawberrySQLAlchemyLoader.loader_for creates the relationship's PaginatedLoader
\* on first use, PaginatedLoader.loader_for the DataLoader of the pagination key,
\* and DataLoader.load(key) returns the key's future.
Load(r, args, key) ==
  /\ ~cancelled
  /\ nLoads < MaxLoads
  /\ LET paginated == IF r \in DOMAIN loaders THEN loaders[r] ELSE <<>>
         pk == pagination_key(args.first, args.after, args.last, args.before)
         dl == IF pk \in DOMAIN paginated THEN paginated[pk]
               ELSE NewDataLoader(args.first, args.after, args.last, args.before)
     IN  loaders' = Extend(loaders, r, Extend(paginated, pk, DataLoaderLoad(dl, key, args)))
  /\ nLoads' = nLoads + 1
  /\ UNCHANGED <<db, mapperVars, lastFlush, cancelled, pageVars, asyncVars, resolverVars>>

\* The batch of DataLoader dl settled with the outcome res of its load_fn call.
Settle(r, pk, dl, fail, res) ==
  /\ loaders' = [loaders EXCEPT ![r][pk] = DispatchBatch(dl, res, fail)]
  /\ lastFlush' = Some([relationship |-> r, pagination_key |-> pk,
                        keys |-> dl.batch, joined |-> dl.joined,
                        fail |-> Met(res, fail),
                        status |-> res.status,
                        nRuns |-> 1, nCount |-> res.nCount,
                        nFetch |-> res.nFetch])

\* The scheduled dispatch of the open batch of one DataLoader: load_fn runs on
\* the batch's keys with the arguments the DataLoader was created with, and the
\* batch's futures are settled.
Dispatch(r, pk, fail) ==
  /\ r \in DOMAIN loaders
  /\ pk \in DOMAIN loaders[r]
  /\ loaders[r][pk].batch # <<>>
  /\ Settle(r, pk, loaders[r][pk], fail,
            load_fn(RelationshipOf(r), db[r], loaders[r][pk].batch,
                    loaders[r][pk].first, loaders[r][pk].after,
                    loaders[r][pk].last, loaders[r][pk].before, fail))
  /\ UNCHANGED <<db, mapperVars, nLoads, cancelled, pageVars, asyncVars, resolverVars>>

\* Mutant of CancelFutures: the futures the cancelled tasks await stay pending.
CancelNothing(dl) == dl

\* The cancellation of the tasks that await the futures of a DataLoader: the
\* task of a resolver is suspended in PaginatedLoader.load at the await of
\* DataLoader.load(key), and cancelling a task cancels the future it awaits.
CancelFutures(dl) ==
  [dl EXCEPT !.cache_map =
     [k \in DOMAIN dl.cache_map |->
        IF dl.cache_map[k].state = "pending"
        THEN [dl.cache_map[k] EXCEPT !.state = "cancelled", !.error = "CancelledError"]
        ELSE dl.cache_map[k]]]

\* The operation is cancelled while resolvers wait for a load: every resolver
\* task of the operation is cancelled, and no resolver loads any more.
Cancel ==
  /\ ~cancelled
  /\ \E r \in DOMAIN loaders : \E pk \in DOMAIN loaders[r] : loaders[r][pk].batch # <<>>
  /\ cancelled' = TRUE
  /\ loaders' = [r \in DOMAIN loaders |->
                   [pk \in DOMAIN loaders[r] |-> CancelFutures(loaders[r][pk])]]
  /\ UNCHANGED <<db, mapperVars, nLoads, lastFlush, pageVars, asyncVars, resolverVars>>

PaginationKeys(r) ==
  {pagination_key(a.first, a.after, a.last, a.before) : a \in LoadArgs(r)}

BackendBehaviours == {"none", "count", "fetch"}

Init ==
  /\ db = [r \in RelationshipKeys |->
             IF r = "employees" THEN EmployeeTable(2, 1, "mixed")
             ELSE <<DepartmentRow(1)>>]
  /\ loaders = <<>>
  /\ nLoads = 0
  /\ lastFlush = None
  /\ cancelled = FALSE
  /\ inflight = <<>>
  /\ sessions = <<>>
  /\ connection_session = None
  /\ resolving = <<>>
  /\ registry = <<>>
  /\ mapper = <<>>
  /\ finalize = <<>>
  /\ request = NoRequest
  /\ response = None
  /\ connection = None

Next ==
  \/ \E r \in RelationshipKeys : \E args \in LoadArgs(r), key \in LoadKeys :
       Load(r, args, key)
  \/ \E r \in RelationshipKeys : \E pk \in PaginationKeys(r), fail \in BackendBehaviours :
       Dispatch(r, pk, fail)

InitPage ==
  /\ \E r \in RelationshipKeys, ks \in KeyLists, a \in AllArgs :
       /\ request = [relationship |-> r, keys |-> ks, args |-> a]
       /\ \E t \in TablesOf(r) : db = [x \in RelationshipKeys |-> IF x = r THEN t ELSE <<>>]
  /\ response = None
  /\ connection = None
  /\ loaders = <<>>
  /\ nLoads = 0
  /\ lastFlush = None
  /\ cancelled = FALSE
  /\ inflight = <<>>
  /\ sessions = <<>>
  /\ connection_session = None
  /\ resolving = <<>>
  /\ registry = <<>>
  /\ mapper = <<>>
  /\ finalize = <<>>

NextPage == Evaluate \/ ResolveConnection

vars == <<db, request, response, connection, loaders, nLoads, lastFlush, cancelled,
          inflight, sessions, connection_session, resolving,
          registry, mapper, finalize>>

Spec == Init /\ [][Next]_vars

SpecPage == InitPage /\ [][NextPage]_vars

\* The loads of an operation that may be cancelled.
LiveArgs(r) == IF r = "employees" THEN {NoArgs, FirstLastArgs} ELSE {NoArgs}

LivePaginationKeys(r) ==
  {pagination_key(a.first, a.after, a.last, a.before) : a \in LiveArgs(r)}

NextLive ==
  \/ \E r \in RelationshipKeys : \E args \in LiveArgs(r), key \in LoadKeys :
       Load(r, args, key)
  \/ \E r \in RelationshipKeys : \E pk \in LivePaginationKeys(r), fail \in BackendBehaviours :
       Dispatch(r, pk, fail)
  \/ Cancel

(***************************************************************************)
(* The cursor functions on their own (SpecCursor): request is an index to  *)
(* encode or a cursor text to decode, response the cursor made of the      *)
(* index and the outcome of decode_cursor_index on the cursor.             *)
(***************************************************************************)
\* Cursor texts that are no base64 of a text with a colon.
NoColonCursor == b64encode(Encode(ArrayConnection))
KeysetCursor == <<">", "i", ":", "1">>
NotBase64Cursors == {EmptyCursor, JunkCursor, UnpaddedCursor, NoColonCursor, KeysetCursor}

\* Cursors of another kind: a prefix other than "arrayconnection".
CapitalisedCursor ==
  to_base64(<<"A","r","r","a","y","c","o","n","n","e","c","t","i","o","n">>, Str(1))
OtherKindCursors == {NodeIdCursor, CapitalisedCursor}

\* Position cursors whose index part is no integer for int().
NoIndexCursor == to_base64(ArrayConnection, <<>>)
TwoColonsCursor == to_base64(ArrayConnection, <<"1", ":", "2">>)
SignOnlyCursor == to_base64(ArrayConnection, <<"-">>)
InnerSpaceCursor == to_base64(ArrayConnection, <<"1", " ", "2">>)
DoubleUnderscoreCursor == to_base64(ArrayConnection, <<"1", "_", "_", "2">>)
NonIntegerCursors ==
  {NonIntegerCursor, NoIndexCursor, TwoColonsCursor, SignOnlyCursor, InnerSpaceCursor,
   DoubleUnderscoreCursor}

\* Position cursors not made by encode_cursor_index whose index part int() reads.
NegativeCursor == to_base64(ArrayConnection, <<"-", "1">>)
SpacedCursor == to_base64(ArrayConnection, <<" ", "7", " ">>)
UnderscoreCursor == to_base64(ArrayConnection, <<"1", "_", "0">>)
ForeignIntegerCursors == {NegativeCursor, SpacedCursor, UnderscoreCursor}

CursorTexts ==
  NotBase64Cursors \cup OtherKindCursors \cup NonIntegerCursors \cup ForeignIntegerCursors

IndexRequest(i) == [kind |-> "index", index |-> i, cursor |-> <<>>]
CursorRequest(c) == [kind |-> "cursor", index |-> 0, cursor |-> c]

InitCursor ==
  /\ request \in {IndexRequest(i) : i \in 0..MaxIndex} \cup {CursorRequest(c) : c \in CursorTexts}
  /\ response = None
  /\ connection = None
  /\ db = [r \in RelationshipKeys |-> <<>>]
  /\ loaders = <<>>
  /\ nLoads = 0
  /\ lastFlush = None
  /\ cancelled = FALSE
  /\ inflight = <<>>
  /\ sessions = <<>>
  /\ connection_session = None
  /\ resolving = <<>>
  /\ registry = <<>>
  /\ mapper = <<>>
  /\ finalize = <<>>

\* encode_cursor_index(index)
EncodeIndex ==
  /\ request.kind = "index"
  /\ response = None
  /\ response' = Some([cursor |-> encode_cursor_index(request.index), decoded |-> FALSE,
                        raised |-> FALSE, value |-> None])
  /\ UNCHANGED <<db, mapperVars, request, connection, loaderVars>>

\* The outcome of the call decode_cursor_index(cursor).
Decoding(cursor) ==
  [cursor |-> cursor, decoded |-> TRUE,
   raised |-> decode_cursor_index_raises(cursor),
   value  |-> IF decode_cursor_index_raises(cursor) THEN None
              ELSE decode_cursor_index(cursor)]

\* decode_cursor_index, of the cursor made of the index or of the cursor text.
DecodeCursor ==
  /\ \/ /\ request.kind = "cursor"
        /\ response = None
        /\ response' = Some(Decoding(request.cursor))
     \/ /\ response # None
        /\ ~response[1].decoded
        /\ response' = Some(Decoding(response[1].cursor))
  /\ UNCHANGED <<db, mapperVars, request, connection, loaderVars>>

NextCursor == EncodeIndex \/ DecodeCursor

SpecCursor == InitCursor /\ [][NextCursor]_vars

\* The event loop keeps running: the dispatch a DataLoader scheduled with
\* call_soon when it opened a batch is eventually run.
Scheduled ==
  \A r \in RelationshipKeys : \A pk \in LivePaginationKeys(r) :
    WF_vars(\E fail \in BackendBehaviours : Dispatch(r, pk, fail))

SpecLive == Init /\ [][NextLive]_vars /\ Scheduled

(***************************************************************************)
(* The relay resolvers and the loads of a relationship through a secondary *)
(* table (SpecRelay).  request is [kind, relationship, keys, args,         *)
(* max_results, ids]:                                                      *)
(*   "keyset"     a KeysetConnection.resolve_connection call with args     *)
(*   "offset"     a batch load of Department.employees with args           *)
(*   "secondary"  a batch load of Department.employees through the join    *)
(*                table, with the keys its field resolver makes            *)
(*   "nodes"      a call of the node-list resolver with ids                *)
(* max_results is schema.config.relay_max_results.                         *)
(***************************************************************************)
\* Python's truth value of an Optional[int]: None and 0 are false.
TruthyCount(n) == n # None /\ n[1] # 0

\* per_page = first or last or max_results
per_page(first, last, max_results) ==
  IF TruthyCount(first) THEN first[1]
  ELSE IF TruthyCount(last) THEN last[1]
  ELSE max_results

\* The call sqlakeyset.get_page(nodes, before, after, per_page) that
\* resolve_nodes makes: one page query, with the bookmarks that are truthy.
get_page(before, after, perPage) ==
  [status |-> "ok", nCount |-> 0, nFetch |-> 1, per_page |-> perPage,
   before |-> IF Truthy(before) THEN before ELSE None,
   after  |-> IF Truthy(after) THEN after ELSE None]

KeysetRaised(error) ==
  [status |-> error, nCount |-> 0, nFetch |-> 0, per_page |-> 0,
   before |-> None, after |-> None]

\* KeysetConnection.resolve_connection
resolve_connection(first, after, last, before, max_results) ==
  IF TruthyCount(first) /\ TruthyCount(last) THEN KeysetRaised("ValueError")
  ELSE IF TruthyCount(first) /\ Truthy(before) THEN KeysetRaised("ValueError")
  ELSE IF TruthyCount(last) /\ Truthy(after) THEN KeysetRaised("ValueError")
  ELSE IF per_page(first, last, max_results) > max_results THEN KeysetRaised("ValueError")
  ELSE get_page(before, after, per_page(first, last, max_results))

\* The key the field resolver of a relationship loads for a parent: the
\* parent's values of the local columns of local_remote_pairs.
relationship_key(relationship, parent) ==
  [i \in 1..Len(relationship.local) |-> parent[relationship.local[i]]]

\* A relay.GlobalID; node_id is the text of the primary key.
GlobalID(type_name, id) == [type_name |-> type_name, node_id |-> Str(id)]

\* Whether the row satisfies one of the filters getattr(model, attr) ==
\* int(node_id) of resolve_model_nodes.
MatchesNodeId(row, node_ids) ==
  \E i \in 1..Len(node_ids) : Some(row.id) = ParseInt(Encode(node_ids[i]))

\* resolve_model_nodes(source, node_ids=node_ids): the query over the model,
\* filtered by or_(filters) when node_ids is not empty, its rows in the
\* backend's order.
resolve_model_nodes(rows, node_ids) ==
  IF node_ids = <<>> THEN rows
  ELSE LET Wanted(row) == MatchesNodeId(row, node_ids) IN SelectSeq(rows, Wanted)

\* nodes_map[node_t] of the resolver: the node ids of that type, in ids' order.
nodes_map(ids, node_t) ==
  LET OfType(gid) == gid.type_name = node_t
      same == SelectSeq(ids, OfType)
  IN  [i \in 1..Len(same) |-> same[i].node_id]

\* index_map[gid][1] of the resolver, counted from 1: the position among the
\* ids of its type of the last occurrence of gid (a later assignment to
\* index_map[gid] replaces an earlier one).
index_map(ids, gid) ==
  LET last == CHOOSE i \in 1..Len(ids) :
                ids[i] = gid /\ \A j \in (i + 1)..Len(ids) : ids[j] # gid
  IN  Len(nodes_map(SubSeq(ids, 1, last), gid.type_name))

\* resolved[node_t] of the resolver.
resolved_nodes(tables, ids, node_t) ==
  resolve_model_nodes(tables[node_t], nodes_map(ids, node_t))

\* The resolver of get_node_list_resolver: the list
\* [resolved[index_map[gid][0]][index_map[gid][1]] for gid in ids], or the
\* IndexError of a list index out of range.
node_list_resolver(tables, ids) ==
  IF \E i \in 1..Len(ids) :
       index_map(ids, ids[i]) > Len(resolved_nodes(tables, ids, ids[i].type_name))
  THEN [status |-> "IndexError", values |-> <<>>]
  ELSE [status |-> "ok",
        values |-> [i \in 1..Len(ids) |->
                      resolved_nodes(tables, ids, ids[i].type_name)[index_map(ids, ids[i])]]]

\* The counts of the relay requests: up to one more than the largest maximum.
RelayCounts == {None} \cup {Some(n) : n \in 0..(MaxCount + 1)}
RelayCursors == {None, Some(EmptyCursor), Some(KeysetCursor)}
RelayMaxResults == {MaxCount - 1, MaxCount}

RelayRequest(kind, relationship, keys, args, max_results, ids) ==
  [kind |-> kind, relationship |-> relationship, keys |-> keys, args |-> args,
   max_results |-> max_results, ids |-> ids]

KeysetRequests ==
  {RelayRequest("keyset", "", <<>>, PaginationArgs(f, a, l, b), MaxCount, <<>>) :
     f \in RelayCounts, l \in RelayCounts, a \in RelayCursors, b \in RelayCursors}

OffsetRequests ==
  {RelayRequest("offset", "employees", ks, PaginationArgs(f, None, l, None), m, <<>>) :
     f \in RelayCounts, l \in RelayCounts, m \in RelayMaxResults,
     ks \in {<< <<1>> >>, << <<1>>, <<2>> >>}}

\* The departments and the employees of the secondary-table fixture.
SecondaryDepartments == {[id |-> 1], [id |-> 2]}
SecondaryEmployeeIds == <<1, 2, 3>>
LinkRow(d, e) == [department_id |-> d, employee_id |-> e]

\* Join tables: five links over the two departments; the same without the
\* links (1, 1) and (2, 2); no link at all.
FiveLinks == <<LinkRow(1, 1), LinkRow(1, 2), LinkRow(2, 1), LinkRow(2, 2), LinkRow(2, 3)>>
CrossLinks == <<LinkRow(1, 2), LinkRow(2, 1), LinkRow(2, 3)>>
JoinTables == {FiveLinks, CrossLinks, <<>>}

\* FROM employee, employee_department_join_table: the rows of the product,
\* each with the columns of both tables.
ProductRow(e, link) ==
  [id |-> e, department_id |-> link.department_id, employee_id |-> link.employee_id]
Product(links) ==
  [n \in 1..(Len(SecondaryEmployeeIds) * Len(links)) |->
     ProductRow(SecondaryEmployeeIds[((n - 1) \div Len(links)) + 1],
                links[((n - 1) % Len(links)) + 1])]

SecondaryKeyLists ==
  {<<relationship_key(SecondaryEmployees, d)>> : d \in SecondaryDepartments}
    \cup {<<relationship_key(SecondaryEmployees, pair[1]),
             relationship_key(SecondaryEmployees, pair[2])>> :
            pair \in {p \in SecondaryDepartments \X SecondaryDepartments : p[1] # p[2]}}

SecondaryRequests ==
  {RelayRequest("secondary", "secondary_employees", ks,
                PaginationArgs(None, None, None, None), MaxCount, <<>>) :
     ks \in SecondaryKeyLists}

\* The node types and their tables, in the orders the backend may return them.
NodeRow(type_name, id) == [type_name |-> type_name, id |-> id]
FruitTables ==
  {<<NodeRow("Fruit", 1), NodeRow("Fruit", 2), NodeRow("Fruit", 3)>>,
   <<NodeRow("Fruit", 3), NodeRow("Fruit", 2), NodeRow("Fruit", 1)>>,
   <<NodeRow("Fruit", 2), NodeRow("Fruit", 3), NodeRow("Fruit", 1)>>}
ColorTables ==
  {<<NodeRow("Color", 1), NodeRow("Color", 2)>>,
   <<NodeRow("Color", 2), NodeRow("Color", 1)>>}
GlobalIDs ==
  {GlobalID("Fruit", i) : i \in 1..3} \cup {GlobalID("Color", i) : i \in 1..2}
IdLists == UNION {[1..n -> GlobalIDs] : n \in 1..MaxIds}

NodesRequests ==
  {RelayRequest("nodes", "", <<>>, PaginationArgs(None, None, None, None), MaxCount, ids) :
     ids \in IdLists}

Database(employees, links, fruit, color) ==
  [employees |-> employees, department |-> <<>>,
   join_table |-> links, secondary_employees |-> Product(links),
   Fruit |-> fruit, Color |-> color]

InitRelay ==
  /\ \/ /\ request \in KeysetRequests
        /\ db = Database(<<>>, <<>>, <<>>, <<>>)
     \/ /\ request \in OffsetRequests
        /\ db = Database(EmployeeTable(MaxCount + 2, 1, "mixed"), <<>>, <<>>, <<>>)
     \/ /\ request \in SecondaryRequests
        /\ \E links \in JoinTables : db = Database(<<>>, links, <<>>, <<>>)
     \/ /\ request \in NodesRequests
        /\ \E fruit \in FruitTables, color \in ColorTables :
             db = Database(<<>>, <<>>, fruit, color)
  /\ response = None
  /\ connection = None
  /\ loaders = <<>>
  /\ nLoads = 0
  /\ lastFlush = None
  /\ cancelled = FALSE
  /\ inflight = <<>>
  /\ sessions = <<>>
  /\ connection_session = None
  /\ resolving = <<>>
  /\ registry = <<>>
  /\ mapper = <<>>
  /\ finalize = <<>>

\* A call KeysetConnection.resolve_connection(nodes, first, after, last, before).
ResolveKeyset ==
  /\ request.kind = "keyset"
  /\ response = None
  /\ response' = Some(resolve_connection(request.args.first, request.args.after,
                                         request.args.last, request.args.before,
                                         request.max_results))
  /\ UNCHANGED <<db, mapperVars, request, connection, loaderVars>>

\* A call of the node-list resolver with the ids of the request.
ResolveNodes ==
  /\ request.kind = "nodes"
  /\ response = None
  /\ response' = Some(node_list_resolver(db, request.ids))
  /\ UNCHANGED <<db, mapperVars, request, connection, loaderVars>>

NextRelay == ResolveKeyset \/ Evaluate \/ ResolveNodes

SpecRelay == InitRelay /\ [][NextRelay]_vars

(***************************************************************************)
(* The loaders over an async bind (SpecAsync): the loader was made with    *)
(* async_bind_factory, so that every backend call of load_fn opens a       *)
(* session of its own and suspends until the backend answers; meanwhile    *)
(* resolvers keep calling load() and further batches are dispatched.       *)
(*   inflight   the dispatched batches whose load_fn is suspended:         *)
(*              [relationship, pagination_key, keys, joined, phase (the    *)
(*              backend call awaited: "count" or "fetch"), session]        *)
(*   sessions   the sessions the factory has made, in order:               *)
(*              [open, query (the call the session was made for)]          *)
(***************************************************************************)
\* async with self._async_bind_factory() as bind: a new session is entered.
EnterSession(ss, query) == Append(ss, [open |-> TRUE, query |-> query])

\* Mutant of ExitSession: the session is left open when the call raised.
ExitSessionOnSuccess(ss, s, ok) == IF ok THEN [ss EXCEPT ![s].open = FALSE] ELSE ss

\* The end of the async with block of _scalars_all / _scalar_one: the context
\* of the session is exited, whether the awaited call returned or raised.
ExitSession(ss, s, ok) == [ss EXCEPT ![s].open = FALSE]

\* Mutant of TakeBatch: the dispatched batch stays the DataLoader's open batch.
TakeBatchKeepingOpen(dl) == [dl EXCEPT !.nBatches = @ + 1]

\* The dispatch task of a batch starts (batch.dispatched = True): the batch
\* takes no more keys, and the next load() of a new key opens another batch.
TakeBatch(dl) == [dl EXCEPT !.batch = <<>>, !.joined = 0, !.nBatches = @ + 1]

\* DataLoader.dispatch_batch once load_fn has answered for the keys of a
\* dispatched batch: as DispatchBatch, the open batch left as it is.
ResolveBatch(dl, keys, res, fail) ==
  LET ok == res.status = "ok" /\ Len(res.values) = Len(keys)
      idx(k) == CHOOSE i \in 1..Len(keys) : keys[i] = k
  IN  [dl EXCEPT
         !.cache_map = [k \in DOMAIN dl.cache_map |->
            IF (\E i \in 1..Len(keys) : keys[i] = k) /\ dl.cache_map[k].state = "pending"
            THEN [state |-> IF ok THEN "resolved" ELSE "rejected",
                  value |-> IF ok THEN res.values[idx(k)] ELSE <<>>,
                  error |-> IF ok THEN ""
                            ELSE IF res.status = "ok" THEN "WrongNumberOfResultsReturned"
                            ELSE res.status,
                  asked |-> dl.cache_map[k].asked,
                  keys |-> keys,
                  fail |-> Met(res, fail)]
            ELSE dl.cache_map[k]],
         !.nRuns = @ + 1,
         !.nCount = @ + res.nCount,
         !.nFetch = @ + res.nFetch]

\* The futures of a dispatched batch settled with the outcome res of load_fn.
SettleAsync(r, pk, dl, keys, joined, fail, res) ==
  /\ loaders' = [loaders EXCEPT ![r][pk] = ResolveBatch(dl, keys, res, fail)]
  /\ lastFlush' = Some([relationship |-> r, pagination_key |-> pk,
                        keys |-> keys, joined |-> joined,
                        fail |-> Met(res, fail),
                        status |-> res.status,
                        nRuns |-> 1, nCount |-> res.nCount,
                        nFetch |-> res.nFetch])

\* The backend call load_fn makes first: the count query when last is given
\* (_get_pagination_offset_limit), else the row fetch.
FirstQuery(dl) == IF dl.last # None THEN "count" ELSE "fetch"

Suspended(r, pk, dl, session) ==
  [relationship |-> r, pagination_key |-> pk, keys |-> dl.batch, joined |-> dl.joined,
   phase |-> FirstQuery(dl), session |-> session]

\* The dispatch task of the open batch of a DataLoader runs: load_fn is called
\* with the batch's keys; it raises at once when the arguments are invalid,
\* else it enters a session and suspends at its first backend call.
StartBatch(r, pk) ==
  /\ r \in DOMAIN loaders
  /\ pk \in DOMAIN loaders[r]
  /\ loaders[r][pk].batch # <<>>
  /\ IF InvalidCombination(loaders[r][pk].first, loaders[r][pk].after,
                           loaders[r][pk].last, loaders[r][pk].before)
     THEN /\ SettleAsync(r, pk, TakeBatch(loaders[r][pk]), loaders[r][pk].batch,
                         loaders[r][pk].joined, "none", Raised("ValueError", 0, 0))
          /\ UNCHANGED asyncVars
     ELSE /\ loaders' = [loaders EXCEPT ![r][pk] = TakeBatch(loaders[r][pk])]
          /\ sessions' = EnterSession(sessions, FirstQuery(loaders[r][pk]))
          /\ inflight' = Append(inflight,
                                Suspended(r, pk, loaders[r][pk], Len(sessions) + 1))
          /\ UNCHANGED lastFlush
  /\ UNCHANGED <<db, mapperVars, nLoads, cancelled, pageVars, resolverVars>>

Without(seq, i) == SubSeq(seq, 1, i - 1) \o SubSeq(seq, i + 1, Len(seq))

\* The load_fn of the suspended batch b ends: with the exception of the call
\* that raised, or with the grouped rows of the fetch.
FinishBatch(i, b, ok) ==
  /\ SettleAsync(b.relationship, b.pagination_key,
                 loaders[b.relationship][b.pagination_key], b.keys, b.joined,
                 IF ok THEN "none" ELSE b.phase,
                 load_fn(RelationshipOf(b.relationship), db[b.relationship], b.keys,
                         loaders[b.relationship][b.pagination_key].first,
                         loaders[b.relationship][b.pagination_key].after,
                         loaders[b.relationship][b.pagination_key].last,
                         loaders[b.relationship][b.pagination_key].before,
                         IF ok THEN "none" ELSE b.phase))
  /\ inflight' = Without(inflight, i)
  /\ sessions' = ExitSession(sessions, b.session, ok)

\* The backend answers the call a suspended load_fn awaits, with a result (ok)
\* or an exception: the session of the call is exited, and load_fn goes on to
\* the row fetch, in a new session, or ends.
BackendReturns(i, ok) ==
  /\ i \in 1..Len(inflight)
  /\ IF inflight[i].phase = "count" /\ ok
     THEN /\ sessions' = EnterSession(ExitSession(sessions, inflight[i].session, ok), "fetch")
          /\ inflight' = [inflight EXCEPT ![i].phase = "fetch",
                                          ![i].session = Len(sessions) + 1]
          /\ UNCHANGED <<loaders, lastFlush>>
     ELSE FinishBatch(i, inflight[i], ok)
  /\ UNCHANGED <<db, mapperVars, nLoads, cancelled, pageVars, resolverVars>>

\* The loads of the resolvers over the async bind.
AsyncArgs(r) == IF r = "employees" THEN {NoArgs, LastArgs, FirstLastArgs} ELSE {NoArgs}

AsyncPaginationKeys(r) ==
  {pagination_key(a.first, a.after, a.last, a.before) : a \in AsyncArgs(r)}

NextAsync ==
  \/ \E r \in RelationshipKeys : \E args \in AsyncArgs(r), key \in LoadKeys :
       Load(r, args, key)
  \/ \E r \in RelationshipKeys : \E pk \in AsyncPaginationKeys(r) : StartBatch(r, pk)
  \/ \E i \in 1..MaxLoads : \E ok \in BOOLEAN : BackendReturns(i, ok)

SpecAsync == Init /\ [][NextAsync]_vars

(***************************************************************************)
(* The session of a connection field (SpecSession): the calls of           *)
(* StrawberrySQLAlchemyConnectionExtension.resolve / resolve_async made by *)
(* the tasks of an operation.  Every task runs in a context of its own.    *)
(*   connection_session  task -> the value of the context variable in the  *)
(*                       task's context: None, or Some(session)            *)
(*   resolving           task -> the stack of the calls that are inside    *)
(*                       their with blocks: [session, token]               *)
(*   sessions            the sessions field.sessionmaker() has made:       *)
(*                       [state ("made", "entered", "exited"), task,       *)
(*                       outcome ("", "returned", "raised")]               *)
(***************************************************************************)
Tasks == {1, 2}

\* session = field_sessionmaker()
MadeSession(t) == [state |-> "made", task |-> t, outcome |-> ""]

\* Mutant of ContextReset: the variable is set back to its default.
ContextResetToDefault(token) == None

\* connection_session.reset(token): the value the variable had before the
\* set() that made the token.
ContextReset(token) == token

\* with session as s: with set_connection_session(s): the context of session
\* s is entered and the variable set, its old value kept in the token.
EnterBlocks(t, s, made) ==
  /\ sessions' = [made EXCEPT ![s].state = "entered"]
  /\ resolving' = [resolving EXCEPT
                     ![t] = Append(@, [session |-> s, token |-> connection_session[t]])]
  /\ connection_session' = [connection_session EXCEPT ![t] = Some(s)]

\* resolve with a Session, or resolve_async with either kind of session: the
\* session is made and the blocks are entered within the call.
BeginResolve(t) ==
  /\ Len(resolving[t]) < MaxDepth
  /\ Len(sessions) < MaxSessions
  /\ EnterBlocks(t, Len(sessions) + 1, Append(sessions, MadeSession(t)))
  /\ UNCHANGED <<db, mapperVars, pageVars, loaders, nLoads, lastFlush, cancelled, inflight>>

\* resolve with an AsyncSession: the session is made and the coroutine
\* inner_resolve_async() is returned, not yet started.
ResolveReturnsCoroutine(t) ==
  /\ Len(sessions) < MaxSessions
  /\ sessions' = Append(sessions, MadeSession(t))
  /\ UNCHANGED <<db, mapperVars, pageVars, loaders, nLoads, lastFlush, cancelled, inflight,
                 resolverVars>>

\* The coroutine inner_resolve_async() of session s is awaited by its task.
RunCoroutine(t, s) ==
  /\ s \in 1..Len(sessions)
  /\ sessions[s].state = "made"
  /\ sessions[s].task = t
  /\ Len(resolving[t]) < MaxDepth
  /\ EnterBlocks(t, s, sessions)
  /\ UNCHANGED <<db, mapperVars, pageVars, loaders, nLoads, lastFlush, cancelled, inflight>>

\* The innermost call of task t leaves its with blocks, by return (ok) or by
\* an exception: the variable is reset with the token and the context of the
\* session is exited.
EndResolve(t, ok) ==
  /\ resolving[t] # <<>>
  /\ LET frame == resolving[t][Len(resolving[t])] IN
       /\ connection_session' =
            [connection_session EXCEPT ![t] = ContextReset(frame.token)]
       /\ sessions' = [sessions EXCEPT
                         ![frame.session].state = "exited",
                         ![frame.session].outcome = IF ok THEN "returned" ELSE "raised"]
  /\ resolving' = [resolving EXCEPT ![t] = SubSeq(@, 1, Len(@) - 1)]
  /\ UNCHANGED <<db, mapperVars, pageVars, loaders, nLoads, lastFlush, cancelled, inflight>>

InitSession ==
  /\ db = <<>>
  /\ request = NoRequest
  /\ response = None
  /\ connection = None
  /\ loaders = <<>>
  /\ nLoads = 0
  /\ lastFlush = None
  /\ cancelled = FALSE
  /\ inflight = <<>>
  /\ sessions = <<>>
  /\ connection_session = [t \in Tasks |-> None]
  /\ resolving = [t \in Tasks |-> <<>>]
  /\ registry = <<>>
  /\ mapper = <<>>
  /\ finalize = <<>>

NextSession ==
  \/ \E t \in Tasks : BeginResolve(t)
  \/ \E t \in Tasks : ResolveReturnsCoroutine(t)
  \/ \E t \in Tasks : \E s \in 1..MaxSessions : RunCoroutine(t, s)
  \/ \E t \in Tasks : \E ok \in BOOLEAN : EndResolve(t, ok)

SpecSession == InitSession /\ [][NextSession]_vars

(***************************************************************************)
(* The generated relationship resolver (SpecResolver): the calls of the    *)
(* resolve coroutine of relationship_resolver_for on instances of the      *)
(* mapped models, and the dispatches of the batches they open.             *)
(*   request   the last call: [call (its number), relationship, instance]  *)
(*   response  what the call did: it returned a value, or it awaits the    *)
(*             future of load(key)                                         *)
(* An instance has its column attributes (None, or Some(value)), the set   *)
(* of its unloaded relationship attributes, and a value for each loaded    *)
(* relationship attribute.                                                 *)
(***************************************************************************)
PyNone == [type |-> "NoneType", items |-> <<>>]
PyList(items) == [type |-> "list", items |-> items]
PyObject(row) == [type |-> "object", items |-> <<row>>]

Instances ==
  [id : {None, Some(1), Some(2)},
   parent_id : {None, Some(1)},
   unloaded : SUBSET RelationshipKeys,
   employees : {PyList(<<EmployeeRow(1, 0), EmployeeRow(1, 1)>>)},
   department : {PyNone, PyObject(DepartmentRow(1))}]

\* Mutant of NoRelated: an empty list for every relationship.
NoRelatedList(relationship) == PyList(<<>>)

\* return [] if relationship.uselist, else return None
NoRelated(relationship) ==
  IF relationship.uselist THEN PyList(<<>>) ELSE PyNone

\* any(item is None for item in relationship_key)
AnyNone(key) == \E i \in 1..Len(key) : key[i] = None

\* The tuple of the values of a key that has no None component.
KeyValues(key) == [i \in 1..Len(key) |-> key[i][1]]

Returned(value) == [state |-> "returned", value |-> value, key |-> <<>>]
Awaiting(key) == [state |-> "awaiting", value |-> PyNone, key |-> key]

\* loader.loader_for(relationship).load(relationship_key), without pagination
\* arguments.
ResolverLoad(relationship, key) ==
  LET paginated == IF relationship.key \in DOMAIN loaders
                   THEN loaders[relationship.key] ELSE <<>>
      pk == pagination_key(None, None, None, None)
      dl == IF pk \in DOMAIN paginated THEN paginated[pk]
            ELSE NewDataLoader(None, None, None, None)
  IN  Extend(loaders, relationship.key,
             Extend(paginated, pk, DataLoaderLoad(dl, key, NoArgs)))

\* resolve(self, info) of relationship_resolver_for(relationship), up to its
\* return or to the await of the loader's future.
Resolve(relationship, instance) ==
  /\ request.call < MaxCalls
  /\ request' = [call |-> request.call + 1, relationship |-> relationship.key,
                 instance |-> instance]
  /\ IF relationship.key \notin instance.unloaded
     THEN /\ response' = Some(Returned(instance[relationship.key]))
          /\ UNCHANGED <<loaders, nLoads>>
     ELSE IF AnyNone(relationship_key(relationship, instance))
     THEN /\ response' = Some(Returned(NoRelated(relationship)))
          /\ UNCHANGED <<loaders, nLoads>>
     ELSE /\ nLoads < MaxLoads
          /\ loaders' = ResolverLoad(relationship,
                                     KeyValues(relationship_key(relationship, instance)))
          /\ nLoads' = nLoads + 1
          /\ response' =
               Some(Awaiting(KeyValues(relationship_key(relationship, instance))))
  /\ UNCHANGED <<db, mapperVars, connection, lastFlush, cancelled, asyncVars, resolverVars>>

InitResolver ==
  /\ db = [r \in RelationshipKeys |->
             IF r = "employees" THEN EmployeeTable(2, 1, "mixed")
             ELSE <<DepartmentRow(1)>>]
  /\ request = [call |-> 0, relationship |-> "employees",
                instance |-> [id |-> None, parent_id |-> None, unloaded |-> {},
                              employees |-> PyList(<<EmployeeRow(1, 0), EmployeeRow(1, 1)>>),
                              department |-> PyNone]]
  /\ response = None
  /\ connection = None
  /\ loaders = <<>>
  /\ nLoads = 0
  /\ lastFlush = None
  /\ cancelled = FALSE
  /\ inflight = <<>>
  /\ sessions = <<>>
  /\ connection_session = None
  /\ resolving = <<>>
  /\ registry = <<>>
  /\ mapper = <<>>
  /\ finalize = <<>>

NextResolver ==
  \/ \E relationship \in Relationships : \E instance \in Instances :
       Resolve(relationship, instance)
  \/ \E r \in RelationshipKeys : \E fail \in BackendBehaviours :
       Dispatch(r, pagination_key(None, None, None, None), fail)

SpecResolver == InitResolver /\ [][NextResolver]_vars

(***************************************************************************)
(* The pages of a KeysetConnection (SpecKeyset): a connection field with   *)
(* keyset=(model.id,) over the Fruit table.  resolve_connection hands the  *)
(* query, ordered by the keyset, to sqlakeyset.get_page and builds the     *)
(* connection from the page: page.paging holds the place (the keyset       *)
(* value) of every row of the page and the direction of the paging, and    *)
(* get_bookmark_at(i) serializes the marker (places[i], backwards).        *)
(*   response  None, or Some(connection): [status, page_info, edges]       *)
(***************************************************************************)
\* sqlakeyset.serialize_bookmark of the marker of an integer place:
\* ">i:<place>", or "<i:<place>" for a page fetched backwards.
serialize_bookmark(place, backwards) ==
  <<IF backwards THEN "<" ELSE ">", "i", ":">> \o Str(place)

\* sqlakeyset.unserialize_bookmark(text).place
unserialize_place(text) == NatOf(Encode(SubSeq(text, 4, Len(text))), 0)

\* Mutant of PyIndex: every index is taken from the start of the list.
PyIndexFromStart(seq, i) == seq[(IF i < 0 THEN 0 - i ELSE i + 1)]

\* seq[i] of a Python list: a negative index counts from the end.
PyIndex(seq, i) == IF i < 0 THEN seq[Len(seq) + i + 1] ELSE seq[i + 1]

RECURSIVE OrderById(_)
\* query.order_by(model.id): the rows in ascending order of id.
OrderById(rows) ==
  IF rows = <<>> THEN <<>>
  ELSE LET m == CHOOSE i \in 1..Len(rows) : \A j \in 1..Len(rows) : rows[i].id <= rows[j].id
       IN  <<rows[m]>> \o OrderById(Without(rows, m))

Reversed(seq) == [i \in 1..Len(seq) |-> seq[Len(seq) + 1 - i]]

\* The rows beyond the place in the direction of the paging, nearest first.
Beyond(rows, place, backwards) ==
  IF backwards
  THEN Reversed(SelectSeq(OrderById(rows), LAMBDA row : place = None \/ row.id < place[1]))
  ELSE SelectSeq(OrderById(rows), LAMBDA row : place = None \/ row.id > place[1])

\* The sqlakeyset.Page of get_page(query, before, after, per_page): per_page + 1
\* rows are fetched beyond the place, the first per_page are the page, in the
\* order of the query; a page before a place is fetched backwards.
Page(rows, place, backwards, perPage) ==
  LET fetched == SubSeq(Beyond(rows, place, backwards), 1,
                        Min(perPage + 1, Len(Beyond(rows, place, backwards))))
      kept == SubSeq(fetched, 1, Min(perPage, Len(fetched)))
      further == Len(fetched) > perPage
  IN  [rows |-> IF backwards THEN Reversed(kept) ELSE kept,
       backwards |-> backwards,
       has_next |-> IF backwards THEN place # None ELSE further,
       has_previous |-> IF backwards THEN further ELSE place # None]

\* page.paging.get_bookmark_at(i)
get_bookmark_at(page, i) ==
  serialize_bookmark(PyIndex(page.rows, i).id, page.backwards)

\* The inner resolve_connection(page) of KeysetConnection.resolve_connection.
ConnectionOf(page) ==
  [status |-> "ok",
   page_info |-> [has_next_page |-> page.has_next,
                  has_previous_page |-> page.has_previous,
                  start_cursor |-> IF page.rows # <<>>
                                   THEN Some(get_bookmark_at(page, 0)) ELSE None,
                  end_cursor |-> IF page.rows # <<>>
                                 THEN Some(get_bookmark_at(page, -1)) ELSE None],
   edges |-> [i \in 1..Len(page.rows) |->
                [cursor |-> get_bookmark_at(page, i - 1), node |-> page.rows[i]]]]

ConnectionRaised(error) ==
  [status |-> error,
   page_info |-> [has_next_page |-> FALSE, has_previous_page |-> FALSE,
                  start_cursor |-> None, end_cursor |-> None],
   edges |-> <<>>]

\* resolve_nodes: the page of the get_page call resolve_connection makes;
\* get_page raises ValueError when it is given both before and after.
resolve_nodes(rows, call) ==
  IF call.status # "ok" THEN ConnectionRaised(call.status)
  ELSE IF call.before # None /\ call.after # None THEN ConnectionRaised("ValueError")
  ELSE IF call.before # None
  THEN ConnectionOf(Page(rows, Some(unserialize_place(call.before[1])), TRUE, call.per_page))
  ELSE IF call.after # None
  THEN ConnectionOf(Page(rows, Some(unserialize_place(call.after[1])), FALSE, call.per_page))
  ELSE ConnectionOf(Page(rows, None, FALSE, call.per_page))

\* The cursors of a keyset request: none, the empty string, bookmarks of
\* either direction.
BookmarkCursors ==
  {None, Some(<<>>)}
    \cup {Some(serialize_bookmark(k, b)) : k \in 0..MaxCount, b \in BOOLEAN}
PageCounts == {None} \cup {Some(n) : n \in 0..MaxCount}
PageRequests ==
  {RelayRequest("keyset", "", <<>>, PaginationArgs(f, a, l, b), MaxCount, <<>>) :
     f \in PageCounts, l \in {None, Some(2)}, a \in BookmarkCursors, b \in BookmarkCursors}
\* The Fruit tables, in the order the rows were inserted.
KeysetTables ==
  {<<>>, <<NodeRow("Fruit", 2)>>, <<NodeRow("Fruit", 3), NodeRow("Fruit", 1)>>,
   <<NodeRow("Fruit", 2), NodeRow("Fruit", 4), NodeRow("Fruit", 1), NodeRow("Fruit", 3)>>}

InitKeyset ==
  /\ request \in PageRequests
  /\ \E fruit \in KeysetTables : db = Database(<<>>, <<>>, fruit, <<>>)
  /\ response = None
  /\ connection = None
  /\ loaders = <<>>
  /\ nLoads = 0
  /\ lastFlush = None
  /\ cancelled = FALSE
  /\ inflight = <<>>
  /\ sessions = <<>>
  /\ connection_session = None
  /\ resolving = <<>>
  /\ registry = <<>>
  /\ mapper = <<>>
  /\ finalize = <<>>

\* A call KeysetConnection.resolve_connection(nodes, first, after, last, before)
\* on a sync session, the page built from the Fruit table.
ResolvePage ==
  /\ response = None
  /\ response' = Some(resolve_nodes(db.Fruit,
                        resolve_connection(request.args.first, request.args.after,
                                           request.args.last, request.args.before,
                                           request.max_results)))
  /\ UNCHANGED <<db, mapperVars, request, connection, loaderVars>>

NextKeyset == ResolvePage

SpecKeyset == InitKeyset /\ [][NextKeyset]_vars

(***************************************************************************)
(* The type mapper (SpecFinalize): the declarations @mapper.type(model) /  *)
(* @mapper.interface(model) of a schema module, then the calls of          *)
(* mapper.finalize().                                                      *)
(*   registry  the SQLAlchemy models: name -> [relationships (the models   *)
(*             its relationships lead to; the key of a relationship is the *)
(*             name of its model), polymorphic_base, supported (whether    *)
(*             every column has a strawberry type)]                        *)
(*   mapper    mapped_types and mapped_interfaces (type name -> [model,    *)
(*             generated, excluded]), related_type_models and              *)
(*             related_interface_models                                    *)
(*   finalize  the position of the running finalize() ("idle" when none    *)
(*             runs), the sets unmapped_models and                         *)
(*             unmapped_interface_models of the pass that is not yet       *)
(*             mapped, unmapped_model_found, the names the call has        *)
(*             registered, and the outcomes of the calls that ended        *)
(***************************************************************************)
ModelNames == {"A", "B", "C"}

Model(relationships, polymorphic_base, supported) ==
  [relationships |-> relationships, polymorphic_base |-> polymorphic_base,
   supported |-> supported]

\* A cycle through all models; a polymorphic base between two models; a model
\* of an unsupported column type behind a relationship; models without
\* relationships.
Registries ==
  {[m \in ModelNames |->
      CASE m = "A" -> Model({"B"}, FALSE, TRUE)
        [] m = "B" -> Model({"C", "A"}, FALSE, TRUE)
        [] m = "C" -> Model({"A", "C"}, FALSE, TRUE)],
   [m \in ModelNames |->
      CASE m = "A" -> Model({"B"}, FALSE, TRUE)
        [] m = "B" -> Model({"C"}, TRUE, TRUE)
        [] m = "C" -> Model({"B"}, FALSE, TRUE)],
   [m \in ModelNames |->
      CASE m = "A" -> Model({"B", "C"}, FALSE, TRUE)
        [] m = "B" -> Model({"C"}, FALSE, FALSE)
        [] m = "C" -> Model({}, TRUE, TRUE)],
   [m \in ModelNames |-> Model({}, FALSE, TRUE)]}

\* The class names of the declared types: the name of the model; for the
\* model A also AType.
Suffixes(m) == IF m = "A" THEN {"", "Type"} ELSE {""}

\* model.__name__ and f"{model.__name__}Interface"
TypeName(m, suffix) == [base |-> m, suffix |-> suffix]
model_to_type_name(m) == TypeName(m, "")
model_to_interface_name(m) == TypeName(m, "Interface")

model_is_interface(m) == registry[m].polymorphic_base

\* StrawberrySQLAlchemyMapper(): nothing mapped.
NewMapper ==
  [mapped_types |-> <<>>, mapped_interfaces |-> <<>>,
   related_type_models |-> {}, related_interface_models |-> {}]

\* Mutant of Converted: the relationships are given their annotations and the
\* models they lead to are not recorded.
ConvertedUnrecorded(mp, m, nm, excluded, make_interface, generated) ==
  IF make_interface
  THEN [mp EXCEPT !.mapped_interfaces =
                    Extend(@, nm, [model |-> m, generated |-> generated,
                                   excluded |-> excluded])]
  ELSE [mp EXCEPT !.mapped_types =
                    Extend(@, nm, [model |-> m, generated |-> generated,
                                   excluded |-> excluded])]

\* convert(type_) of mapper.type(model, make_interface), for a model whose
\* columns are supported: every relationship that is not excluded goes through
\* _convert_relationship_to_strawberry_type, which records its model as
\* related; the type is registered under its name.
Converted(mp, m, nm, excluded, make_interface, generated) ==
  LET related == registry[m].relationships \ excluded
      recorded ==
        [mp EXCEPT
           !.related_type_models = @ \cup {t \in related : ~model_is_interface(t)},
           !.related_interface_models = @ \cup {t \in related : model_is_interface(t)}]
  IN  IF make_interface
      THEN [recorded EXCEPT !.mapped_interfaces =
                              Extend(@, nm, [model |-> m, generated |-> generated,
                                             excluded |-> excluded])]
      ELSE [recorded EXCEPT !.mapped_types =
                              Extend(@, nm, [model |-> m, generated |-> generated,
                                             excluded |-> excluded])]

Idle(outcomes) ==
  [pc |-> "idle", unmapped_models |-> {}, unmapped_interface_models |-> {},
   unmapped_model_found |-> FALSE, registered |-> {}, outcomes |-> outcomes]

\* @mapper.type(model) class <model><suffix>: __exclude__ = excluded
DeclareType(m, suffix, excluded) ==
  /\ finalize.pc = "idle"
  /\ finalize.outcomes = <<>>
  /\ registry[m].supported
  /\ TypeName(m, suffix) \notin DOMAIN mapper.mapped_types
  /\ excluded \subseteq registry[m].relationships
  /\ mapper' = Converted(mapper, m, TypeName(m, suffix), excluded, FALSE, FALSE)
  /\ UNCHANGED <<db, pageVars, loaderVars, registry, finalize>>

\* @mapper.interface(model) class <model>Interface, which raises
\* InterfaceModelNotPolymorphic for a model that is no polymorphic base.
DeclareInterface(m) ==
  /\ finalize.pc = "idle"
  /\ finalize.outcomes = <<>>
  /\ registry[m].supported
  /\ model_is_interface(m)
  /\ model_to_interface_name(m) \notin DOMAIN mapper.mapped_interfaces
  /\ mapper' = Converted(mapper, m, model_to_interface_name(m), {}, TRUE, FALSE)
  /\ UNCHANGED <<db, pageVars, loaderVars, registry, finalize>>

\* mapper.finalize() is called: _map_unmapped_relationships starts.
BeginFinalize ==
  /\ finalize.pc = "idle"
  /\ Len(finalize.outcomes) < MaxFinalize
  /\ finalize' = [Idle(finalize.outcomes) EXCEPT !.pc = "scan", !.unmapped_model_found = TRUE]
  /\ UNCHANGED <<db, pageVars, loaderVars, registry, mapper>>

\* The head of a pass of the while loop: the related models whose name is
\* not registered.
Scan ==
  /\ finalize.pc = "scan"
  /\ LET unmapped_models ==
           {m \in mapper.related_type_models :
              model_to_type_name(m) \notin DOMAIN mapper.mapped_types}
         unmapped_interface_models ==
           {m \in mapper.related_interface_models :
              model_to_interface_name(m) \notin DOMAIN mapper.mapped_interfaces}
     IN  finalize' = [finalize EXCEPT
                        !.pc = "map",
                        !.unmapped_models = unmapped_models,
                        !.unmapped_interface_models = unmapped_interface_models,
                        !.unmapped_model_found =
                          unmapped_models # {} \/ unmapped_interface_models # {}]
  /\ UNCHANGED <<db, pageVars, loaderVars, registry, mapper>>

\* convert raises UnsupportedColumnType, and finalize() with it.
Raise ==
  /\ finalize' = [Idle(Append(finalize.outcomes, "raised")) EXCEPT
                    !.registered = finalize.registered]
  /\ UNCHANGED mapper

\* for model in unmapped_models: self.type(model)(type(name, (object,), {}))
MapModel(m) ==
  /\ finalize.pc = "map"
  /\ m \in finalize.unmapped_models
  /\ IF registry[m].supported
     THEN /\ mapper' = Converted(mapper, m, model_to_type_name(m), {}, FALSE, TRUE)
          /\ finalize' = [finalize EXCEPT
                            !.unmapped_models = @ \ {m},
                            !.registered = @ \cup {model_to_type_name(m)}]
     ELSE Raise
  /\ UNCHANGED <<db, pageVars, loaderVars, registry>>

\* for model in unmapped_interface_models: self.interface(model)(type(...))
MapInterface(m) ==
  /\ finalize.pc = "map"
  /\ finalize.unmapped_models = {}
  /\ m \in finalize.unmapped_interface_models
  /\ IF registry[m].supported
     THEN /\ mapper' = Converted(mapper, m, model_to_interface_name(m), {}, TRUE, TRUE)
          /\ finalize' = [finalize EXCEPT
                            !.unmapped_interface_models = @ \ {m},
                            !.registered = @ \cup {model_to_interface_name(m)}]
     ELSE Raise
  /\ UNCHANGED <<db, pageVars, loaderVars, registry>>

\* The end of a pass: another pass while unmapped_model_found; after the
\* last, _fix_annotation_namespaces, which registers nothing, and the return.
EndPass ==
  /\ finalize.pc = "map"
  /\ finalize.unmapped_models = {}
  /\ finalize.unmapped_interface_models = {}
  /\ finalize' = IF finalize.unmapped_model_found
                 THEN [finalize EXCEPT !.pc = "scan"]
                 ELSE [Idle(Append(finalize.outcomes, "returned")) EXCEPT
                         !.registered = finalize.registered]
  /\ UNCHANGED <<db, pageVars, loaderVars, registry, mapper>>

InitFinalize ==
  /\ db = <<>>
  /\ request = NoRequest
  /\ response = None
  /\ connection = None
  /\ loaders = <<>>
  /\ nLoads = 0
  /\ lastFlush = None
  /\ cancelled = FALSE
  /\ inflight = <<>>
  /\ sessions = <<>>
  /\ connection_session = None
  /\ resolving = <<>>
  /\ registry \in Registries
  /\ mapper = NewMapper
  /\ finalize = Idle(<<>>)

FinalizeStep ==
  \/ Scan
  \/ \E m \in ModelNames : MapModel(m)
  \/ \E m \in ModelNames : MapInterface(m)
  \/ EndPass

NextFinalize ==
  \/ \E m \in ModelNames : \E suffix \in Suffixes(m) :
       \E excluded \in SUBSET ModelNames : DeclareType(m, suffix, excluded)
  \/ \E m \in ModelNames : DeclareInterface(m)
  \/ BeginFinalize
  \/ FinalizeStep

\* A call of finalize() runs to its end: nothing else runs in between.
SpecFinalize == InitFinalize /\ [][NextFinalize]_vars /\ WF_vars(FinalizeStep)

(***************************************************************************)
(* Properties of load_fn (SpecPage).                                       *)
(***************************************************************************)
ReqRel == RelationshipOf(request.relationship)
ReqTable == db[request.relationship]

\* The rows of a table (or of a fetch) that belong to key k, in their order.
RowsOfKey(rows, k) ==
  LET Belongs(row) == group_by_remote_key(ReqRel, row) = k
  IN  SelectSeq(rows, Belongs)

\* Arguments load_fn must reject.
Incompatible(a) ==
  \/ a.first # None /\ a.last # None
  \/ a.first # None /\ a.before # None
  \/ a.last # None /\ a.after # None

IsPositionCursor(c) == c # None /\ \E i \in CursorIndices : c[1] = CursorOf[i]
IndexOfCursor(c) == CHOOSE i \in CursorIndices : c[1] = CursorOf[i]
IsMalformed(c) == c # None /\ c[1] \in MalformedCursors

\* C2: load_fn answers every key list whose arguments are compatible, with one
\* entry per key in the order of the keys; entry i is the group of the fetched
\* rows whose remote key is keys[i], in the order fetched (to-many), or the first
\* of them, None when there is none (to-one); without pagination arguments the
\* group of a key is all its rows, and a key without rows gets the empty list.
C2_OneEntryPerKey ==
  response # None =>
    LET res == response[1] IN
    /\ ~Incompatible(request.args) => res.status = "ok"
    /\ res.status = "ok" =>
         /\ Len(res.values) = Len(request.keys)
         /\ \A i \in 1..Len(request.keys) :
              LET group == RowsOfKey(res.rows, request.keys[i]) IN
              res.values[i] =
                IF ReqRel.uselist THEN group
                ELSE IF group = <<>> THEN None ELSE Some(group[1])
         /\ request.args = PaginationArgs(None, None, None, None) =>
              \A i \in 1..Len(request.keys) :
                RowsOfKey(res.rows, request.keys[i]) = RowsOfKey(ReqTable, request.keys[i])

\* C2 witness: keys (3,), (1,) asked in that order over a table that starts with
\* a row of parent 1 and interleaves the parents: the key without rows gets the
\* empty list, in first place, and parent 1 its three rows.
C2_Witness ==
  /\ response # None
  /\ request.relationship = "employees"
  /\ request.keys = << <<3>>, <<1>> >>
  /\ request.args = PaginationArgs(None, None, None, None)
  /\ Len(ReqTable) = 5
  /\ ReqTable[2].parent_id = 2
  /\ response[1].status = "ok"
  /\ response[1].values = << <<>>, RowsOfKey(ReqTable, <<1>>) >>
  /\ Len(RowsOfKey(ReqTable, <<1>>)) = 3

\* C3 (as claimed; the code violates it): the result a key of a paginated to-many
\* batch receives is the one it receives when it is the only key of its batch.
C3_PerKeySlice ==
  ( /\ response # None
    /\ response[1].status = "ok"
    /\ ReqRel.uselist
    /\ request.args # PaginationArgs(None, None, None, None) ) =>
    \A i \in 1..Len(request.keys) :
      response[1].values[i] =
        load_fn(ReqRel, ReqTable, <<request.keys[i]>>, request.args.first,
                request.args.after, request.args.last, request.args.before,
                "none").values[1]

\* C5: a single key of a to-many relationship with T rows, first = n >= 1 and
\* after absent or the cursor of an index a >= 0: the result is the rows
\* s .. min(s + n, T) - 1 in order, s = a + 1 (0 without after).
C5_ForwardSlice ==
  ( /\ response # None
    /\ ReqRel.uselist
    /\ Len(request.keys) = 1
    /\ request.args.first # None
    /\ request.args.last = None
    /\ request.args.before = None
    /\ request.args.after = None \/ IsPositionCursor(request.args.after) ) =>
    LET all == RowsOfKey(ReqTable, request.keys[1])
        T   == Len(all)
        n   == request.args.first[1]
        s   == IF request.args.after = None THEN 0
               ELSE IndexOfCursor(request.args.after) + 1
    IN  n >= 1 =>
          /\ response[1].status = "ok"
          /\ response[1].values[1] = [j \in 1..(Min(s + n, T) - s) |-> all[s + j]]

\* C5 witness: 10 rows, first = 4 after the cursor of index 2 gives rows 3..6.
C5_Witness ==
  /\ response # None
  /\ request.relationship = "employees"
  /\ request.keys = << <<1>> >>
  /\ request.args = PaginationArgs(Some(4), Some(encode_cursor_index(2)), None, None)
  /\ Len(RowsOfKey(ReqTable, <<1>>)) = 10
  /\ response[1].values[1] = [j \in 1..4 |-> EmployeeRow(1, 2 + j)]

\* C6: a single key of a to-many relationship with T rows, last = n >= 1 and
\* before absent or the cursor of an index b >= 1: the result is the rows
\* max(0, e - n) .. e - 1 in forward order, e = min(b, T) (T without before).
C6_BackwardSlice ==
  ( /\ response # None
    /\ ReqRel.uselist
    /\ Len(request.keys) = 1
    /\ request.args.last # None
    /\ request.args.first = None
    /\ request.args.after = None
    /\ request.args.before = None \/ IsPositionCursor(request.args.before) ) =>
    LET all == RowsOfKey(ReqTable, request.keys[1])
        T   == Len(all)
        n   == request.args.last[1]
        b   == IF request.args.before = None THEN T
               ELSE IndexOfCursor(request.args.before)
        e   == Min(b, T)
        lo  == Max(0, e - n)
    IN  (n >= 1 /\ (request.args.before = None \/ b >= 1)) =>
          /\ response[1].status = "ok"
          /\ response[1].values[1] = [j \in 1..(e - lo) |-> all[lo + j]]

\* C6 witness: 10 rows, last = 4 before the cursor of index 7 gives rows 3..6.
C6_Witness ==
  /\ response # None
  /\ request.relationship = "employees"
  /\ request.keys = << <<1>> >>
  /\ request.args = PaginationArgs(None, None, Some(4), Some(encode_cursor_index(7)))
  /\ Len(RowsOfKey(ReqTable, <<1>>)) = 10
  /\ response[1].values[1] = [j \in 1..4 |-> EmployeeRow(1, 2 + j)]

C7_Example(T, args, hasNextPage, hasPreviousPage) ==
  (Len(RowsOfKey(ReqTable, request.keys[1])) = T /\ request.args = args) =>
    connection[1].page_info =
      [hasPreviousPage |-> hasPreviousPage, hasNextPage |-> hasNextPage]

C8_MalformedCursorRejected ==
  ( /\ response # None
    /\ IsMalformed(request.args.after) \/ IsMalformed(request.args.before) ) =>
    response[1].status = "ValueError"

Strip(c) == IF IsMalformed(c) THEN None ELSE c

\* C8 (amended): a cursor that does not decode to a position raises nothing: it
\* still counts as supplied for the rejection of incompatible arguments, and a
\* request with compatible arguments succeeds with the result of the same
\* request without that cursor.
C8_MalformedCursorIgnored ==
  ( /\ response # None
    /\ IsMalformed(request.args.after) \/ IsMalformed(request.args.before) ) =>
    IF Incompatible(request.args)
    THEN response[1].status = "ValueError"
    ELSE /\ response[1].status = "ok"
         /\ response[1] =
              load_fn(ReqRel, ReqTable, request.keys, request.args.first,
                      Strip(request.args.after), request.args.last,
                      Strip(request.args.before), "none")

\* C8 witness: first = 2 after the global id of a node ("Fruit:1"), sent as a
\* cursor: the first two rows are returned, as without after.
C8_Witness ==
  /\ response # None
  /\ request.relationship = "employees"
  /\ request.keys = << <<1>> >>
  /\ request.args = PaginationArgs(Some(2), Some(NodeIdCursor), None, None)
  /\ Len(RowsOfKey(ReqTable, <<1>>)) = 4
  /\ response[1].status = "ok"
  /\ response[1].values[1] = <<EmployeeRow(1, 0), EmployeeRow(1, 1)>>

(***************************************************************************)
(* Properties of the loaders (Spec).                                       *)
(***************************************************************************)
\* The DataLoaders created so far, as <<relationship key, pagination key>>.
DataLoaders == UNION {{<<r, pk>> : pk \in DOMAIN loaders[r]} : r \in DOMAIN loaders}
DL(l) == loaders[l[1]][l[2]]
Futures(l) == DOMAIN DL(l).cache_map
Future(l, k) == DL(l).cache_map[k]
InBatch(l, k) == \E i \in 1..Len(DL(l).batch) : DL(l).batch[i] = k
ClosureArgs(l) == PaginationArgs(DL(l).first, DL(l).after, DL(l).last, DL(l).before)

\* The flushed batches of a DataLoader that met the backend failure f.
BatchesThatMet(l, f) == {Future(l, k).keys : k \in {x \in Futures(l) : Future(l, x).fail = f}}

\* C1 (as claimed): for every flushed batch load_fn ran once and the row fetch
\* was executed exactly once.
C1_OneFetchPerBatch ==
  lastFlush # None => lastFlush[1].nRuns = 1 /\ lastFlush[1].nFetch = 1

\* C1 (amended): the N >= 1 load() calls that joined one batch cause one run of
\* load_fn and at most one row fetch for the whole batch: exactly one when the
\* arguments pass the validation and the count query (made for last) does not
\* raise, none otherwise; so over all batches of a DataLoader.
C1_Coalescing ==
  /\ lastFlush # None =>
       LET b == lastFlush[1]
           l == <<b.relationship, b.pagination_key>>
       IN  /\ b.joined >= Len(b.keys)
           /\ Len(b.keys) >= 1
           /\ b.nRuns = 1
           /\ b.nFetch = IF Incompatible(ClosureArgs(l)) \/ b.fail = "count" THEN 0 ELSE 1
  /\ \A l \in DataLoaders :
       /\ DL(l).nRuns = DL(l).nBatches
       /\ DL(l).nFetch = IF Incompatible(ClosureArgs(l)) THEN 0
                         ELSE DL(l).nBatches - Cardinality(BatchesThatMet(l, "count"))

\* C1 witness: two load() calls for two keys joined a batch while another
\* DataLoader had its own batch open; the batch was flushed with one row fetch.
C1_Witness ==
  /\ lastFlush # None
  /\ lastFlush[1].joined >= 2
  /\ Len(lastFlush[1].keys) = 2
  /\ lastFlush[1].nFetch = 1
  /\ \E l \in DataLoaders : DL(l).batch # <<>>

\* C4: every key loaded with first and last, first and before, or last and after
\* is rejected with ValueError when its batch is flushed, and a DataLoader of
\* such arguments never executes a count query or a row fetch.
C4_InvalidCombinationRejected ==
  \A l \in DataLoaders :
    /\ \A k \in Futures(l) :
         Incompatible(Future(l, k).asked) =>
           \/ InBatch(l, k) /\ Future(l, k).state = "pending"
           \/ Future(l, k).state = "rejected" /\ Future(l, k).error = "ValueError"
    /\ Incompatible(ClosureArgs(l)) => DL(l).nCount = 0 /\ DL(l).nFetch = 0

\* C4 witness: a batch of two keys loaded with last and after was flushed: both
\* keys are rejected with ValueError and no query was executed.
C4_Witness ==
  \E l \in DataLoaders :
    /\ ClosureArgs(l) = LastAfterArgs
    /\ DL(l).nBatches = 1
    /\ DL(l).nCount = 0 /\ DL(l).nFetch = 0
    /\ \A k \in LoadKeys :
         /\ k \in Futures(l)
         /\ Future(l, k).state = "rejected"
         /\ Future(l, k).error = "ValueError"
         /\ Len(Future(l, k).keys) = 2

\* C9: when the count query or the row fetch of a batch raises, every key of
\* that batch is rejected with that error (none is pending, none resolved), the
\* batch is not flushed again: its keys are in no later batch, load_fn ran once
\* per batch, and no query ran more than once per batch.
C9_BackendFailureRejectsBatch ==
  \A l \in DataLoaders :
    /\ \A k \in Futures(l) :
         Future(l, k).fail # "none" =>
           /\ ~InBatch(l, k)
           /\ \A i \in 1..Len(Future(l, k).keys) :
                LET f == Future(l, Future(l, k).keys[i]) IN
                /\ f.state = "rejected"
                /\ f.error = "BackendError"
                /\ f.fail = Future(l, k).fail
                /\ f.keys = Future(l, k).keys
    /\ DL(l).nRuns = DL(l).nBatches
    /\ DL(l).nFetch <= DL(l).nBatches
    /\ DL(l).nCount <= DL(l).nBatches
    /\ (lastFlush # None /\ lastFlush[1].fail # "none"
          /\ l = <<lastFlush[1].relationship, lastFlush[1].pagination_key>>) =>
         \A i \in 1..Len(lastFlush[1].keys) :
           Future(l, lastFlush[1].keys[i]).fail = lastFlush[1].fail

\* C9 witness: the row fetch of a batch of two keys raised; both keys are
\* rejected with the backend's error after one run of load_fn and one fetch.
C9_Witness ==
  \E l \in DataLoaders :
    /\ DL(l).nBatches = 1 /\ DL(l).nRuns = 1 /\ DL(l).nFetch = 1
    /\ DL(l).batch = <<>>
    /\ \A k \in LoadKeys :
         /\ k \in Futures(l)
         /\ Future(l, k).state = "rejected"
         /\ Future(l, k).error = "BackendError"
         /\ Future(l, k).fail = "fetch"

\* The index of key k in the key list of the batch that settled its future.
BatchIndex(l, k) == CHOOSE i \in 1..Len(Future(l, k).keys) : Future(l, k).keys[i] = k

\* C10: the outcome of a load depends on its own DataLoader alone: a settled
\* future is rejected only when its own arguments are incompatible (ValueError)
\* or a query of its own batch raised (BackendError); otherwise it is resolved,
\* with the entry load_fn gives its key for its own batch, which without
\* pagination arguments is all the rows of the key (to-many) or its row or None
\* (to-one), whatever happened to the other DataLoaders.
C10_FailureIsolation ==
  \A l \in DataLoaders : \A k \in Futures(l) :
    LET f   == Future(l, k)
        rel == RelationshipOf(l[1])
        own == LET Belongs(row) == group_by_remote_key(rel, row) = k IN SelectSeq(db[l[1]], Belongs)
    IN  f.state # "pending" =>
          IF Incompatible(f.asked)
          THEN f.state = "rejected" /\ f.error = "ValueError"
          ELSE IF f.fail # "none"
          THEN f.state = "rejected" /\ f.error = "BackendError"
          ELSE /\ f.state = "resolved"
               /\ f.value = load_fn(rel, db[l[1]], f.keys, f.asked.first, f.asked.after,
                                    f.asked.last, f.asked.before, "none").values[BatchIndex(l, k)]
               /\ f.asked = NoArgs =>
                    f.value = IF rel.uselist THEN own
                              ELSE IF own = <<>> THEN None ELSE Some(own[1])

\* C10 witness: a key loaded with first and last was rejected, the row fetch of
\* another DataLoader of the same relationship raised, and a third DataLoader
\* of that relationship resolved its key with the key's rows.
C10_Witness ==
  /\ lastFlush # None
  /\ lastFlush[1].status = "ok"
  /\ \E a, b, c \in DataLoaders :
       /\ a[1] = b[1] /\ b[1] = c[1]
       /\ \E k \in Futures(a) : Future(a, k).error = "ValueError"
       /\ \E k \in Futures(b) : Future(b, k).error = "BackendError"
       /\ c = <<lastFlush[1].relationship, lastFlush[1].pagination_key>>
       /\ \E k \in Futures(c) :
            /\ Future(c, k).state = "resolved"
            /\ Future(c, k).value # <<>>

\* A load() call of the operation as a step: Load(r, a, k) on the DataLoader
\* of relationship r and of the pagination key of a.
LoaderOf(r, a) == <<r, pagination_key(a.first, a.after, a.last, a.before)>>

\* The future of key k in DataLoader l is resolved.
Resolved(l, k) == l \in DataLoaders /\ k \in Futures(l) /\ Future(l, k).state = "resolved"

\* C11, the cached load: a load(key) on a DataLoader that has resolved the key
\* changes nothing but the count of such calls: the same future, no batch entry.
C11_CachedLoad ==
  \A r \in RelationshipKeys : \A a \in LoadArgs(r) : \A k \in LoadKeys :
    (Load(r, a, k) /\ Resolved(LoaderOf(r, a), k)) =>
      /\ DataLoaders' = DataLoaders
      /\ \A l \in DataLoaders :
           /\ DL(l).cache_map' = DL(l).cache_map
           /\ DL(l).batch' = DL(l).batch
           /\ DL(l).nRuns' = DL(l).nRuns
           /\ DL(l).nCount' = DL(l).nCount
           /\ DL(l).nFetch' = DL(l).nFetch
      /\ lastFlush' = lastFlush

\* C11, no sharing: a load(key) on a DataLoader that has no future for the key
\* gets a new pending future in that DataLoader's open batch, whatever the
\* other DataLoaders have cached for the key.
C11_UncachedLoad ==
  \A r \in RelationshipKeys : \A a \in LoadArgs(r) : \A k \in LoadKeys :
    (Load(r, a, k) /\ ~(LoaderOf(r, a) \in DataLoaders /\ k \in Futures(LoaderOf(r, a)))) =>
      /\ loaders'[r][LoaderOf(r, a)[2]].cache_map[k].state = "pending"
      /\ \E i \in 1..Len(loaders'[r][LoaderOf(r, a)[2]].batch) :
           loaders'[r][LoaderOf(r, a)[2]].batch[i] = k

\* C11, own fetch: a resolved future holds the entry of its key in the result
\* of its own DataLoader's load_fn, run with that DataLoader's arguments on the
\* batch the key was in.
C11_OwnFetch ==
  \A l \in DataLoaders : \A k \in Futures(l) :
    Future(l, k).state = "resolved" =>
      /\ DL(l).nRuns >= 1
      /\ DL(l).nFetch >= 1
      /\ \E i \in 1..Len(Future(l, k).keys) :
           /\ Future(l, k).keys[i] = k
           /\ Future(l, k).value =
                load_fn(RelationshipOf(l[1]), db[l[1]], Future(l, k).keys,
                        DL(l).first, DL(l).after, DL(l).last, DL(l).before,
                        "none").values[i]

\* C11: once load(key) has resolved on a DataLoader, every later load(key) on it
\* returns the same future without a backend call, and a load(key) on another
\* DataLoader (another relationship or pagination signature) does not reuse
\* that value: it joins its own batch and is resolved by its own fetch.
C11_Cache ==
  /\ []C11_OwnFetch
  /\ [][C11_CachedLoad /\ C11_UncachedLoad]_vars

\* C11 witness: key 1 was resolved by one fetch of a DataLoader and loaded from
\* it again, and the DataLoader of another signature of the same relationship
\* resolved key 1 with a fetch of its own, to another value.
C11_Witness ==
  \E l, m \in DataLoaders :
    /\ l[1] = m[1] /\ l[2] # m[2]
    /\ Resolved(l, <<1>>) /\ Resolved(m, <<1>>)
    /\ DL(l).hits = 1
    /\ DL(l).nFetch = 1 /\ DL(m).nFetch = 1
    /\ Future(l, <<1>>).value # Future(m, <<1>>).value

\* C12, the registry: the DataLoader kept under <<relationship, pagination key>>
\* is the one created with that signature, and it is the instance a call
\* returns if and only if the call names that relationship and that signature.
C12_OnePerSignature ==
  /\ DOMAIN loaders \subseteq RelationshipKeys
  /\ \A r \in DOMAIN loaders : DOMAIN loaders[r] # {}
  /\ \A l \in DataLoaders :
       /\ l = LoaderOf(l[1], ClosureArgs(l))
       /\ \A r \in RelationshipKeys : \A a \in LoadArgs(r) :
            LoaderOf(r, a) = l <=> (r = l[1] /\ a = ClosureArgs(l))

\* C12, lazily created and kept: a call creates the PaginatedLoader of its
\* relationship and the DataLoader of its signature only when there is none,
\* and no step removes or replaces an instance (its arguments and the futures
\* it has cached stay).
C12_CreatedOnFirstRequest ==
  /\ \A l \in DataLoaders :
       /\ l \in DataLoaders'
       /\ ClosureArgs(l)' = ClosureArgs(l)
       /\ Futures(l) \subseteq Futures(l)'
       /\ DL(l).nBatches' >= DL(l).nBatches
       /\ DL(l).hits' >= DL(l).hits
  /\ \A r \in RelationshipKeys : \A a \in LoadArgs(r) : \A k \in LoadKeys :
       Load(r, a, k) =>
         /\ DOMAIN loaders' = (DOMAIN loaders) \cup {r}
         /\ DataLoaders' = DataLoaders \cup {LoaderOf(r, a)}
         /\ ClosureArgs(LoaderOf(r, a))' = a
  /\ nLoads' = nLoads => DataLoaders' = DataLoaders

\* C12: a StrawberrySQLAlchemyLoader holds one PaginatedLoader per relationship
\* requested and each PaginatedLoader one DataLoader per pagination signature;
\* instances are created on first request, never replaced or removed, and two
\* calls get the same DataLoader iff they name the same relationship and the
\* same signature.
C12_Registry ==
  /\ []C12_OnePerSignature
  /\ [][C12_CreatedOnFirstRequest]_vars

\* C12 witness: three calls over both relationships were served by two
\* DataLoaders: one call got the instance an earlier call had created.
C12_Witness ==
  /\ nLoads = 3
  /\ DOMAIN loaders = RelationshipKeys
  /\ Cardinality(DataLoaders) = 2
  /\ \E l \in DataLoaders : Cardinality(Futures(l)) = 2

(***************************************************************************)
(* Properties of the loaders of an operation that may be cancelled         *)
(* (SpecLive).                                                             *)
(***************************************************************************)
\* The future of key k in the DataLoader <<r, pk>>, when there is one.
HasFuture(r, pk, k) ==
  r \in DOMAIN loaders /\ pk \in DOMAIN loaders[r] /\ k \in DOMAIN loaders[r][pk].cache_map

Pending(r, pk, k) == HasFuture(r, pk, k) /\ loaders[r][pk].cache_map[k].state = "pending"

Fulfilled(r, pk, k) == HasFuture(r, pk, k) /\ loaders[r][pk].cache_map[k].state # "pending"

\* C14, eventually: a pending future is fulfilled.
C14_Eventually ==
  \A r \in RelationshipKeys : \A pk \in LivePaginationKeys(r) : \A k \in LoadKeys :
    Pending(r, pk, k) ~> Fulfilled(r, pk, k)

\* C14, once: a pending future changes only when it is fulfilled, by the flush
\* of the batch it is in or by the cancellation; a fulfilled future never
\* changes.
C14_Once ==
  \A l \in DataLoaders : \A k \in Futures(l) :
    /\ Future(l, k).state # "pending" =>
         (l \in DataLoaders' /\ k \in Futures(l)' /\ Future(l, k)' = Future(l, k))
    /\ (Future(l, k).state = "pending" /\ Future(l, k)' # Future(l, k)) =>
         /\ Future(l, k).state' \in {"resolved", "rejected", "cancelled"}
         /\ InBatch(l, k)
         /\ (lastFlush' # lastFlush \/ cancelled')

\* C14: every pending request created by a load() call is eventually fulfilled
\* (resolved or rejected) while the event loop keeps running, when its batch
\* is flushed, exactly once: a fulfilled future keeps its outcome.
C14_FulfilledOnce ==
  /\ C14_Eventually
  /\ [][C14_Once]_vars

\* C14 witness: the flush of a batch of two keys resolved both futures, and a
\* future of another DataLoader, fulfilled before, is as it was.
C14_Witness ==
  /\ lastFlush # None
  /\ Len(lastFlush[1].keys) = 2
  /\ lastFlush[1].status = "ok"
  /\ \A i \in 1..2 :
       Fulfilled(lastFlush[1].relationship, lastFlush[1].pagination_key, lastFlush[1].keys[i])
  /\ \E l \in DataLoaders :
       /\ l # <<lastFlush[1].relationship, lastFlush[1].pagination_key>>
       /\ \E k \in Futures(l) : Future(l, k).state = "rejected"

\* C15, the cancellation step: every future that is pending when the operation
\* is cancelled, its batch not yet flushed, is rejected with the cancellation
\* error, and the futures fulfilled before keep their outcome.
C15_CancelStep ==
  (~cancelled /\ cancelled') =>
    /\ \E l \in DataLoaders : DL(l).batch # <<>>
    /\ \A l \in DataLoaders : \A k \in Futures(l) :
         IF Future(l, k).state = "pending"
         THEN /\ InBatch(l, k)
              /\ Future(l, k).state' = "cancelled"
              /\ Future(l, k).error' = "CancelledError"
         ELSE Future(l, k)' = Future(l, k)

\* C15, nothing dangles: in a cancelled operation no future is pending.
C15_NoneLeftPending ==
  cancelled => \A l \in DataLoaders : \A k \in Futures(l) : Future(l, k).state # "pending"

C16_RoundTrip ==
  (response # None /\ request.kind = "index") =>
    /\ response[1].cursor = encode_cursor_index(request.index)
    /\ \A j \in 0..MaxIndex :
         j # request.index => encode_cursor_index(j) # response[1].cursor
    /\ response[1].decoded =>
         (~response[1].raised /\ response[1].value = Some(request.index))

\* C16 witness: the cursor of index 100 was decoded to 100.
C16_Witness ==
  /\ request = IndexRequest(100)
  /\ response # None
  /\ response[1].decoded
  /\ response[1].value = Some(100)

\* C17: decode_cursor_index raises for no cursor: a text that is no base64 of a
\* text with a colon, a cursor of another kind and a position cursor whose
\* index part is no integer give None; a position cursor whose index part
\* int() reads gives that integer.
C17_NeverRaises ==
  (response # None /\ response[1].decoded) =>
    /\ ~response[1].raised
    /\ request.kind = "cursor" =>
         /\ request.cursor \in NotBase64Cursors \cup OtherKindCursors \cup NonIntegerCursors
              => response[1].value = None
         /\ request.cursor = NegativeCursor => response[1].value = Some(0 - 1)
         /\ request.cursor = SpacedCursor => response[1].value = Some(7)
         /\ request.cursor = UnderscoreCursor => response[1].value = Some(10)

\* C17 witness: the global id of a node, sent as a cursor, was decoded to None
\* without an exception.
C17_Witness ==
  /\ request = CursorRequest(NodeIdCursor)
  /\ response # None
  /\ response[1].decoded
  /\ ~response[1].raised
  /\ response[1].value = None


(***************************************************************************)
(* Properties of the secondary-table loads and of the relay resolvers      *)
(* (SpecRelay).                                                            *)
(***************************************************************************)
\* The employees the join table links to department d.
LinkedTo(links, d) ==
  {links[i].employee_id : i \in {j \in 1..Len(links) : links[j].department_id = d}}

\* C13: a batch load of a relationship through a secondary table succeeds and
\* gives every requested parent key exactly the targets the join table links
\* to that parent, each once: the group sizes sum to the number of links of
\* the requested parents and no target appears under a parent it is not
\* linked to.
C13_SecondaryGrouping ==
  (request.kind = "secondary" /\ response # None) =>
    /\ response[1].status = "ok"
    /\ Len(response[1].values) = Len(request.keys)
    /\ \A i \in 1..Len(request.keys) :
         /\ {response[1].values[i][j].id : j \in 1..Len(response[1].values[i])}
              = LinkedTo(db.join_table, request.keys[i][1])
         /\ Len(response[1].values[i])
              = Cardinality(LinkedTo(db.join_table, request.keys[i][1]))

\* Whether first or last of the request exceeds the configured maximum.
Oversized(req) ==
  \/ req.args.first # None /\ req.args.first[1] > req.max_results
  \/ req.args.last # None /\ req.args.last[1] > req.max_results

\* C18: a request whose first or last exceeds the configured maximum page size
\* is rejected with a validation error and no backend query has run, in keyset
\* mode (resolve_connection) and in offset mode (the batch load of the
\* relationship loader) alike.
C18_OversizedRejected ==
  (request.kind \in {"keyset", "offset"} /\ response # None /\ Oversized(request)) =>
    /\ response[1].status = "ValueError"
    /\ response[1].nCount = 0
    /\ response[1].nFetch = 0

\* C19: resolve_connection rejects with a validation error, without fetching a
\* page, every request that supplies first with last, first with before, or
\* last with after, whatever the non-null values are (a count of 0 and the
\* empty cursor string included).
C19_IncompatibleRejected ==
  (request.kind = "keyset" /\ response # None /\ Incompatible(request.args)) =>
    /\ response[1].status = "ValueError"
    /\ response[1].nFetch = 0

\* The node a global id identifies.
NodeOf(gid) == NodeRow(gid.type_name, ParseInt(Encode(gid.node_id))[1])

Distinct(ids) == \A i, j \in 1..Len(ids) : ids[i] = ids[j] => i = j

\* C20: for ids that are distinct and identify existing nodes, of one node
\* type or of several, the node-list resolver returns one entry per id and
\* entry i is the node ids[i] identifies, whatever order the backend returns
\* the rows of a type in.
C20_NodesInIdsOrder ==
  (request.kind = "nodes" /\ response # None /\ Distinct(request.ids)) =>
    /\ response[1].status = "ok"
    /\ Len(response[1].values) = Len(request.ids)
    /\ \A i \in 1..Len(request.ids) : response[1].values[i] = NodeOf(request.ids[i])

(***************************************************************************)
(* Bounds of a page (SpecPage).                                            *)
(***************************************************************************)
\* C21: a single key of a to-many relationship loaded with first = n >= 0,
\* without last and without before: the key's result holds at most n rows, and
\* none when n = 0.
C21_FirstBound ==
  ( /\ response # None
    /\ ReqRel.uselist
    /\ Len(request.keys) = 1
    /\ request.args.first # None
    /\ request.args.last = None
    /\ request.args.before = None ) =>
    /\ response[1].status = "ok"
    /\ Len(response[1].values[1]) <= request.args.first[1]

\* C22: a single key of a to-many relationship loaded with a before cursor of
\* an index b >= 0 and arguments that pass the validation (before alone, with
\* after, or with last): every row returned is one of the rows 0 .. b - 1 of
\* the key's rows, so that b = 0 gives an empty result.
C22_BeforeExclusive ==
  ( /\ response # None
    /\ ReqRel.uselist
    /\ Len(request.keys) = 1
    /\ IsPositionCursor(request.args.before)
    /\ ~Incompatible(request.args) ) =>
    LET all == RowsOfKey(ReqTable, request.keys[1])
        b   == IndexOfCursor(request.args.before)
    IN  /\ response[1].status = "ok"
        /\ \A j \in 1..Len(response[1].values[1]) :
             \E i \in 1..Min(b, Len(all)) : all[i] = response[1].values[1][j]

(***************************************************************************)
(* The key list of a batch (Spec).                                         *)
(***************************************************************************)
BatchKeys(l) == {DL(l).batch[i] : i \in 1..Len(DL(l).batch)}

DistinctKeys(keys) == \A i, j \in 1..Len(keys) : keys[i] = keys[j] => i = j

\* C24, distinct: the open batch of a DataLoader, and the key list handed to
\* load_fn at a flush, hold every key once.
C24_Distinct ==
  /\ \A l \in DataLoaders : DistinctKeys(DL(l).batch)
  /\ lastFlush # None => (lastFlush[1].keys # <<>> /\ DistinctKeys(lastFlush[1].keys))

\* C24, order: the open batch of a DataLoader changes only by a new key added
\* at its end, or by the flush that hands the whole list to load_fn.
C24_FirstLoadOrder ==
  \A l \in DataLoaders :
    \/ DL(l).batch' = DL(l).batch
    \/ \E k \in LoadKeys \ BatchKeys(l) : DL(l).batch' = Append(DL(l).batch, k)
    \/ /\ DL(l).batch' = <<>>
       /\ lastFlush' # lastFlush
       /\ lastFlush'[1].relationship = l[1]
       /\ lastFlush'[1].pagination_key = l[2]
       /\ lastFlush'[1].keys = DL(l).batch

\* C24, join: a load() for a key that is pending in the open batch gets the
\* future that is there and adds no entry to the batch.
C24_Join ==
  \A r \in RelationshipKeys : \A a \in LoadArgs(r) : \A k \in LoadKeys :
    (Load(r, a, k) /\ LoaderOf(r, a) \in DataLoaders /\ InBatch(LoaderOf(r, a), k)) =>
      /\ Future(LoaderOf(r, a), k).state = "pending"
      /\ DL(LoaderOf(r, a)).cache_map' = DL(LoaderOf(r, a)).cache_map
      /\ DL(LoaderOf(r, a)).batch' = DL(LoaderOf(r, a)).batch

\* C24: the key list handed to load_fn for a batch holds each distinct key
\* once, in the order of the keys' first load() calls; a load() for a key
\* pending in the open batch returns the same future and adds no entry.
C24_KeyList ==
  /\ []C24_Distinct
  /\ [][C24_FirstLoadOrder /\ C24_Join]_vars

\* C24 witness: three load() calls, for the keys 2, 1 and 2 again, made one
\* batch whose key list is <<2, 1>>.
C24_Witness ==
  /\ lastFlush # None
  /\ lastFlush[1].keys = << <<2>>, <<1>> >>
  /\ lastFlush[1].joined = 3

(***************************************************************************)
(* The order of the rows of a key (SpecPage).                              *)
(***************************************************************************)
\* The positions in rows of the rows equal to row.
PositionsOf(rows, row) == {p \in 1..Len(rows) : rows[p] = row}

\* C25: for a to-many relationship, the result of each key holds exactly the
\* fetched rows of that key, each as often as it was fetched, in the relative
\* order in which the backend returned them.
C25_RowOrderKept ==
  (response # None /\ ReqRel.uselist /\ response[1].status = "ok") =>
    \A i \in 1..Len(request.keys) :
      LET group == response[1].values[i]
          rows  == response[1].rows
      IN  /\ \A p \in 1..Len(rows) :
               group_by_remote_key(ReqRel, rows[p]) = request.keys[i] =>
                 Cardinality(PositionsOf(group, rows[p])) = Cardinality(PositionsOf(rows, rows[p]))
          /\ \A q \in 1..Len(group) :
               /\ group_by_remote_key(ReqRel, group[q]) = request.keys[i]
               /\ PositionsOf(rows, group[q]) # {}
          /\ \A q1, q2 \in 1..Len(group) :
               q1 < q2 =>
                 \E p1, p2 \in 1..Len(rows) :
                   p1 < p2 /\ rows[p1] = group[q1] /\ rows[p2] = group[q2]

\* C25 witness: the backend returned the rows of two parents interleaved, and
\* parent 1 got its three rows in the order returned, which has a row of
\* parent 2 between them.
C25_Witness ==
  /\ response # None
  /\ request.relationship = "employees"
  /\ request.keys = << <<2>>, <<1>> >>
  /\ response[1].status = "ok"
  /\ Len(response[1].rows) = 5
  /\ group_by_remote_key(ReqRel, response[1].rows[2]) = <<2>>
  /\ response[1].values[2] = <<response[1].rows[1], response[1].rows[3], response[1].rows[5]>>
  /\ response[1].values[1] = <<response[1].rows[2], response[1].rows[4]>>

(***************************************************************************)
(* Batches in flight and sessions over an async bind (SpecAsync).          *)
(***************************************************************************)
\* The suspended batches of the DataLoader of relationship r and pagination
\* key pk.
InFlightOf(r, pk) ==
  {i \in 1..Len(inflight) :
     inflight[i].relationship = r /\ inflight[i].pagination_key = pk}

KeysOf(keys) == {keys[i] : i \in 1..Len(keys)}

\* C23 (as claimed): for one relationship and pagination signature at most one
\* batch is in flight at any time, also when the fetch of a batch suspends at
\* an await of the async bind while further load() calls arrive.
C23_OneBatchInFlight ==
  \A r \in RelationshipKeys : \A pk \in AsyncPaginationKeys(r) :
    Cardinality(InFlightOf(r, pk)) <= 1

\* C23 (amended): over an async bind several batches of one signature may be
\* in flight at once, but never for the same key: the batches in flight of one
\* DataLoader have pairwise disjoint key lists, disjoint from its open batch,
\* and every key of them has a pending future in the DataLoader's cache.
C23_DisjointBatches ==
  \A r \in RelationshipKeys : \A pk \in AsyncPaginationKeys(r) :
    \A i \in InFlightOf(r, pk) :
      /\ \A j \in InFlightOf(r, pk) :
           i # j => KeysOf(inflight[i].keys) \cap KeysOf(inflight[j].keys) = {}
      /\ KeysOf(inflight[i].keys) \cap KeysOf(loaders[r][pk].batch) = {}
      /\ \A k \in KeysOf(inflight[i].keys) :
           /\ k \in DOMAIN loaders[r][pk].cache_map
           /\ loaders[r][pk].cache_map[k].state = "pending"

\* C23 witness: two batches of the same DataLoader are suspended at their row
\* fetch at the same time, one for key 1 and one for key 2.
C23_Witness ==
  \E i, j \in 1..Len(inflight) :
    /\ i # j
    /\ inflight[i].relationship = inflight[j].relationship
    /\ inflight[i].pagination_key = inflight[j].pagination_key
    /\ inflight[i].phase = "fetch" /\ inflight[j].phase = "fetch"
    /\ inflight[i].keys = << <<1>> >>
    /\ inflight[j].keys = << <<2>> >>

\* The sessions that are open.
OpenSessions == {s \in 1..Len(sessions) : sessions[s].open}

\* C29, state: the open sessions are those of the backend calls that are
\* awaited, one session for each, so that none is open when no call is.
C29_OpenOnlyDuringCall ==
  /\ OpenSessions = {inflight[i].session : i \in 1..Len(inflight)}
  /\ \A i, j \in 1..Len(inflight) : inflight[i].session = inflight[j].session => i = j
  /\ \A i \in 1..Len(inflight) : sessions[inflight[i].session].query = inflight[i].phase
  /\ inflight = <<>> => OpenSessions = {}

\* C29, step: a backend call that starts enters a session made for it, and a
\* session that was exited is never used again.
C29_OwnSession ==
  /\ Len(sessions') \in {Len(sessions), Len(sessions) + 1}
  /\ \A s \in 1..Len(sessions) : ~sessions[s].open => sessions'[s] = sessions[s]
  /\ \A i \in 1..Len(inflight') :
       (\A j \in 1..Len(inflight) : inflight[j] # inflight'[i]) =>
         /\ inflight'[i].session = Len(sessions) + 1
         /\ Len(sessions') = Len(sessions) + 1

\* C29: over async_bind_factory every backend call of the loader has a session
\* of its own, exited when the call returns or raises: after any loads, failed
\* and concurrent batches included, no session of the loader is left open.
C29_SessionsExited ==
  /\ []C29_OpenOnlyDuringCall
  /\ [][C29_OwnSession]_vars

\* C29 witness: three sessions were made, for the count query and the row fetch
\* of one batch and for a call of another, the last batch ended with the
\* exception of its row fetch, and every session is exited.
C29_Witness ==
  /\ Len(sessions) = 3
  /\ \E s \in 1..3 : sessions[s].query = "count"
  /\ inflight = <<>>
  /\ lastFlush # None
  /\ lastFlush[1].fail = "fetch"
  /\ OpenSessions = {}

(***************************************************************************)
(* The context variable of the connection fields (SpecSession).            *)
(***************************************************************************)
\* The sessions of the calls of task t that are inside their with blocks.
SessionsOf(t) == {resolving[t][i].session : i \in 1..Len(resolving[t])}

\* C28, state: in every task connection_session is the session of the
\* innermost call that is running, and its default (None) when no call is;
\* the sessions whose context is entered are those of the running calls.
C28_SetOnlyWhileResolving ==
  /\ \A t \in Tasks :
       connection_session[t] =
         IF resolving[t] = <<>> THEN None
         ELSE Some(resolving[t][Len(resolving[t])].session)
  /\ \A s \in 1..Len(sessions) :
       sessions[s].state = "entered" <=> s \in SessionsOf(sessions[s].task)

\* C28, step: when a call returns or raises, the variable holds the value it
\* had when the call set it, and the session the call opened is exited; a
\* call of another task does not change the variable.
C28_Restored ==
  \A t \in Tasks :
    /\ Len(resolving'[t]) < Len(resolving[t]) =>
         /\ connection_session'[t] =
              (IF Len(resolving[t]) = 1 THEN None
               ELSE Some(resolving[t][Len(resolving[t]) - 1].session))
         /\ sessions'[resolving[t][Len(resolving[t])].session].state = "exited"
    /\ resolving'[t] = resolving[t] => connection_session'[t] = connection_session[t]

\* C28: resolve and resolve_async set connection_session to the session they
\* opened for the time of the resolution only: when the call returns or
\* raises the variable holds the value it had before (nested calls restore in
\* LIFO order) and the context of the session is exited.
C28_SessionScoped ==
  /\ []C28_SetOnlyWhileResolving
  /\ [][C28_Restored]_vars

\* C28 witness: in task 1 a call nested in another raised and the outer call
\* then returned, both sessions exited and the variable back at None, while a
\* call of task 2 is still running with its own session.
C28_Witness ==
  /\ Len(sessions) = 3
  /\ sessions[1].task = 1 /\ sessions[1].outcome = "returned"
  /\ sessions[2].task = 1 /\ sessions[2].outcome = "raised"
  /\ sessions[3].task = 2 /\ sessions[3].state = "entered"
  /\ connection_session = [t \in Tasks |-> IF t = 1 THEN None ELSE Some(3)]

(***************************************************************************)
(* The generated relationship resolver (SpecResolver).                     *)
(***************************************************************************)
\* The load() calls DataLoader pk of relationship r has received since its
\* last dispatch, and the cache hits before.
CallsOn(ls, r, pk) ==
  IF r \in DOMAIN ls /\ pk \in DOMAIN ls[r] THEN ls[r][pk].joined + ls[r][pk].hits ELSE 0

\* The DataLoaders other than pk of relationship r are the same in ls1 and ls2.
SameExcept(ls1, ls2, r, pk) ==
  /\ DOMAIN ls2 \subseteq (DOMAIN ls1) \cup {r}
  /\ \A r2 \in DOMAIN ls1 :
       /\ r2 \in DOMAIN ls2
       /\ DOMAIN ls2[r2] \subseteq (DOMAIN ls1[r2]) \cup (IF r2 = r THEN {pk} ELSE {})
       /\ \A pk2 \in DOMAIN ls1[r2] :
            /\ pk2 \in DOMAIN ls2[r2]
            /\ (r2 # r \/ pk2 # pk) => ls2[r2][pk2] = ls1[r2][pk2]

\* C27: a call of the generated relationship resolver makes no load() call
\* when the relationship is loaded on the instance (it returns the loaded
\* attribute) or when a component of the instance's local key is None (it
\* returns an empty list for a to-many relationship and None for a to-one
\* relationship); any other call makes exactly one load() call, on the
\* relationship's loader without pagination arguments, with the tuple of the
\* instance's local key values in the order of local_remote_pairs.
C27_Step ==
  request'.call = request.call + 1 =>
    LET rel == RelationshipOf(request'.relationship)
        inst == request'.instance
        locals == [i \in 1..Len(rel.local) |-> inst[rel.local[i]]]
    IN  IF rel.key \notin inst.unloaded
        THEN /\ loaders' = loaders /\ nLoads' = nLoads
             /\ response'[1].state = "returned"
             /\ response'[1].value = inst[rel.key]
        ELSE IF \E i \in 1..Len(locals) : locals[i] = None
        THEN /\ loaders' = loaders /\ nLoads' = nLoads
             /\ response'[1].state = "returned"
             /\ response'[1].value.items = <<>>
             /\ response'[1].value.type = (IF rel.uselist THEN "list" ELSE "NoneType")
        ELSE /\ nLoads' = nLoads + 1
             /\ SameExcept(loaders, loaders', rel.key, <<>>)
             /\ CallsOn(loaders', rel.key, <<>>) = CallsOn(loaders, rel.key, <<>>) + 1
             /\ response'[1].state = "awaiting"
             /\ Len(response'[1].key) = Len(locals)
             /\ \A i \in 1..Len(locals) : locals[i] = Some(response'[1].key[i])
             /\ response'[1].key \in DOMAIN loaders'[rel.key][<<>>].cache_map

C27_ResolverLoadsOnce == [][C27_Step]_vars

\* C27 witness: after a call that loaded the key (2,) of employees, a call for
\* the unloaded department of an instance whose parent_id is None returned
\* None, with no further load() call.
C27_Witness ==
  /\ request.call = 3
  /\ request.relationship = "department"
  /\ "department" \in request.instance.unloaded
  /\ request.instance.parent_id = None
  /\ response = Some([state |-> "returned", value |-> PyNone, key |-> <<>>])
  /\ nLoads = 1
  /\ "employees" \in DOMAIN loaders
  /\ <<2>> \in DOMAIN loaders["employees"][<<>>].cache_map

(***************************************************************************)
(* The cursors of a keyset page (SpecKeyset).                              *)
(***************************************************************************)
\* The keyset cursor of a row of a page: the bookmark of the row's id, in
\* either direction.
OwnCursors(node) ==
  {<<">", "i", ":">> \o Str(node.id), <<"<", "i", ":">> \o Str(node.id)}

\* C26: in every page KeysetConnection.resolve_connection builds,
\* pageInfo.startCursor is the cursor of the first edge and pageInfo.endCursor
\* the cursor of the last edge; both are null for an empty page, and both are
\* the row's own keyset cursor for a page of one row.
C26_PageInfoCursors ==
  (response # None /\ response[1].status = "ok") =>
    LET info == response[1].page_info
        edges == response[1].edges
    IN  /\ edges = <<>> => info.start_cursor = None /\ info.end_cursor = None
        /\ edges # <<>> =>
             /\ info.start_cursor = Some(edges[1].cursor)
             /\ info.end_cursor = Some(edges[Len(edges)].cursor)
        /\ Len(edges) = 1 =>
             /\ info.start_cursor = info.end_cursor
             /\ info.start_cursor[1] \in OwnCursors(edges[1].node)

\* C26 witness: a page of three rows fetched backwards, its start and end
\* cursors the bookmarks of the rows 1 and 3.
C26_Witness ==
  /\ response # None
  /\ response[1].status = "ok"
  /\ Len(response[1].edges) = 3
  /\ request.args.before = Some(<<">", "i", ":", "4">>)
  /\ response[1].page_info.start_cursor = Some(<<"<", "i", ":", "1">>)
  /\ response[1].page_info.end_cursor = Some(<<"<", "i", ":", "3">>)

\* C26 witnesses of the other cases: an empty page, and a page of one row.
C26_EmptyPage ==
  /\ response # None /\ response[1].status = "ok" /\ response[1].edges = <<>>
  /\ Len(db.Fruit) = 4
C26_SingleRow ==
  /\ response # None /\ response[1].status = "ok" /\ Len(response[1].edges) = 1
  /\ Len(db.Fruit) = 4

(***************************************************************************)
(* finalize() (SpecFinalize).                                              *)
(***************************************************************************)
\* The types and interfaces registered for model m.
EntriesOf(m) ==
  {mapper.mapped_types[nm] : nm \in {x \in DOMAIN mapper.mapped_types : x.base = m}}
    \cup {mapper.mapped_interfaces[nm] :
            nm \in {x \in DOMAIN mapper.mapped_interfaces : x.base = m}}

MappedModels == {m \in ModelNames : EntriesOf(m) # {}}

\* The models one relationship away from the models ms: over every
\* relationship of the models, or over those only that a type of the model
\* does not exclude.
StepAll(ms) == UNION {registry[m].relationships : m \in ms}
StepKept(ms) ==
  UNION {registry[m].relationships \ e.excluded : <<m, e>> \in
           {p \in ms \X UNION {EntriesOf(x) : x \in ms} : p[2] \in EntriesOf(p[1])}}

RECURSIVE ReachAll(_, _)
ReachAll(ms, n) == IF n = 0 THEN ms ELSE ReachAll(ms \cup StepAll(ms), n - 1)
RECURSIVE ReachKept(_, _)
ReachKept(ms, n) ==
  IF n = 0 THEN ms ELSE ReachKept(ms \cup StepKept(ms), n - 1)

\* Model m has a type under its name: an interface in mapped_interfaces for a
\* polymorphic base, a type in mapped_types for any other model.
HasType(m) ==
  IF registry[m].polymorphic_base
  THEN [base |-> m, suffix |-> "Interface"] \in DOMAIN mapper.mapped_interfaces
  ELSE [base |-> m, suffix |-> ""] \in DOMAIN mapper.mapped_types

\* The last call of finalize() has returned.
Finalized ==
  /\ finalize.pc = "idle"
  /\ finalize.outcomes # <<>>
  /\ finalize.outcomes[Len(finalize.outcomes)] = "returned"

\* C30 as stated, violated: when finalize() has returned, every model
\* reachable through relationships from a mapped type has its type.
C30_EveryReachableModel ==
  Finalized =>
    \A m \in ReachAll(StepAll(MappedModels), Cardinality(ModelNames)) : HasType(m)

\* C30, closure: when finalize() has returned, every model reachable from a
\* mapped type through relationships that the types do not exclude has its
\* type.
C30_Closed ==
  Finalized =>
    \A m \in ReachKept(StepKept(MappedModels), Cardinality(ModelNames)) : HasType(m)

\* C30, second call: a call of finalize() that follows one that returned
\* registers nothing.
C30_SecondRegistersNothing ==
  (\E k \in 1..Len(finalize.outcomes) :
      /\ finalize.outcomes[k] = "returned"
      /\ k < Len(finalize.outcomes) + (IF finalize.pc = "idle" THEN 0 ELSE 1))
    => finalize.registered = {}

\* C30, termination: a call of finalize() ends.
C30_Terminates == (finalize.pc # "idle") ~> (finalize.pc = "idle")

\* C30: finalize() terminates; when it returns, every model reachable from a
\* mapped type through relationships the types do not exclude has a type
\* registered in mapped_types (in mapped_interfaces for a polymorphic base);
\* a second call registers nothing new.
C30_Finalize ==
  /\ C30_Terminates
  /\ []C30_Closed
  /\ []C30_SecondRegistersNothing

\* C30 witness: only A was declared, with no exclusion; finalize() generated
\* the interface of the polymorphic base B and the type of C behind it, and
\* a second call returned without registering anything.
C30_Witness ==
  /\ finalize.pc = "idle"
  /\ finalize.outcomes = <<"returned", "returned">>
  /\ finalize.registered = {}
  /\ registry["B"].polymorphic_base
  /\ DOMAIN mapper.mapped_types = {[base |-> "A", suffix |-> ""], [base |-> "C", suffix |-> ""]}
  /\ mapper.mapped_types[[base |-> "A", suffix |-> ""]].excluded = {}
  /\ mapper.mapped_types[[base |-> "C", suffix |-> ""]].generated
  /\ DOMAIN mapper.mapped_interfaces = {[base |-> "B", suffix |-> "Interface"]}
  /\ mapper.mapped_interfaces[[base |-> "B", suffix |-> "Interface"]].generated

====
